---- MODULE Spec2Model ----
(***************************************************************************)
(* Clipboard2Voice: the TTS server's model cache and /tts dispatch         *)
(* (tts_server.py), the VPN-compatible hotkey client with its              *)
(* reconnect-and-retry send (vpn_compatible_tts.py, tts_client.py), the    *)
(* listeners of hotkey_tts.py and standalone_tts.py, and the diagnostic    *)
(* tool (debug_vpn_connection.py).                                         *)
(***************************************************************************)
EXTENDS Integers, Sequences, FiniteSets, TLC

(***************************************************************************)
(* Bounds of the model.                                                    *)
(***************************************************************************)
\* request threads of the Flask server (app.run serves threaded)
NThreads == 2
\* trigger contexts that may run _handle_hotkey at the same time
NHandlers == 2
\* conversion worker threads alive at the same time (cap on Thread(...).start())
MaxWorkers == 2
\* largest max_retries a listener is constructed with
MaxRetries == 3
\* most candidate URLs that answer the health check at the same time
MaxHealthy == 2
\* most addresses gethostbyname_ex lists for the host
MaxIps == 1
\* most calls of TTSModelManager() after the one at module import
MaxConstructions == 2

(***************************************************************************)
(* Program constants.                                                      *)
(***************************************************************************)
DefaultModel == "tts_models/en/ljspeech/tacotron2-DDC"
XttsModel == "tts_models/multilingual/multi-dataset/xtts_v2"
ModelNames == {DefaultModel, XttsModel}
ReferencePath == "reference_audio.wav"
None == "None"

\* request.json of a thread that has received no request yet
NoRequest == <<>>

\* no engine invocation prepared yet, no /models response yet, the manager not
\* constructed yet
NoCall == <<>>
NoInventory == <<>>
NotCreated == <<>>

\* thread 0 is the main thread (module import, __main__); 1..NThreads serve requests
MainThread == 0
Threads == 1..NThreads
AllThreads == {MainThread} \cup Threads

VARIABLES
    \* ---- tts_server.py ----
    models,           \* TTSModelManager.models: model name -> engine instance
    reference_audio,  \* TTSModelManager.reference_audio
    pc,               \* position of each server thread
    model_name,       \* the model_name local of each thread's call
    tts,              \* the engine instance get_model returned to the thread
    exc,              \* the exception propagating in the thread
    resp,             \* HTTP status of the thread's last response (0: none yet)
    loads,            \* history: successful TTS(model_name=k) constructions per k
    overlap,          \* history: threads whose load of the same key overlapped this load
    busy              \* history: another key's load was in flight when the lookup hit

serverVars == <<models, reference_audio, pc, model_name, tts, exc, resp,
                loads, overlap, busy>>

VARIABLES
    req,              \* generate_speech: request.json of the thread's last request
    call,             \* text_to_speech: the engine's attributes and the tts_params
                      \* of the last invocation prepared (lines 146-180)
    inventory,        \* list_models: the body of the last /models response
    creation,         \* history: what ensure_reference_audio found and attempted
    skip_preload,     \* __main__: the skip_preload local (line 249)
    constructions     \* history: calls of TTSModelManager() after the first

observedVars == <<req, call, inventory, creation, skip_preload, constructions>>

VARIABLES
    \* ---- vpn_compatible_tts.py: one VPNCompatibleTTSHotkey ----
    max_retries,      \* self.max_retries
    client,           \* self.client: the server URL of the selected TTSClient
    is_processing,    \* self.is_processing
    last_text,        \* self.last_text
    hpc,              \* position of each trigger context in _handle_hotkey
    wpc,              \* position of each worker thread in _convert_to_speech
    wmodel,           \* the worker's model_name argument
    attempt,          \* the worker's loop variable
    err,              \* the exception e bound in the worker's except block
    nreq,             \* history: synthesis requests the worker's send has issued
    nsel,             \* history: runs of _connect_to_server inside the send
    outcome,          \* history: how the worker's send ended
    prev_err,         \* history: the exception the request before the last one raised
    reported          \* what the send logged when it gave up (lines 250, 258)

clientVars == <<max_retries, client, is_processing, last_text, hpc, wpc, wmodel,
                attempt, err, nreq, nsel, outcome, prev_err, reported>>

VARIABLES
    \* ---- _connect_to_server, debug_vpn_connection.py: one run ----
    cpc,              \* what has run: "start", then the name of the function
    env,              \* what the host names resolve to, what each candidate answers
    candidates,       \* the URL list the generator returned
    result            \* what the function returned, or how it ended

connectVars == <<cpc, env, candidates, result>>

VARIABLES
    \* ---- the listener programs ----
    kind,             \* the listener program that runs, by its module
    clipboard,        \* history: what pyperclip.paste() gave the last trigger
    \* ---- standalone_tts.py ----
    model_arg,        \* StandaloneTTSHotkey.model_name, the --model argument
    en_tts,           \* StandaloneTTSHotkey.en_tts: the English engine or None
    ml_tts,           \* StandaloneTTSHotkey.ml_tts: the multilingual engine or None
    engine_calls,     \* history: tts_to_file calls made by each worker
    fallbacks         \* history: _fallback_tts calls made by each worker

listenerVars == <<kind, clipboard, model_arg, en_tts, ml_tts, engine_calls, fallbacks>>

VARIABLES
    \* ---- TTSModelManager, the class ----
    _instance,        \* TTSModelManager._instance: 0 for None, else the object
    _initialized,     \* the _initialized attribute of the instance
    kpc,              \* position of each thread inside TTSModelManager()
    got,              \* history: the object TTSModelManager() returned to the thread
    objects,          \* history: objects made by super().__new__
    bodies            \* history: runs of the body of __init__, lines 112-116

singletonVars == <<_instance, _initialized, kpc, got, objects, bodies>>

VARIABLES
    \* ---- start(), stop() and the pynput callbacks ----
    running,          \* self.running
    current_keys,     \* self.current_keys
    pynput_listener,  \* self.pynput_listener: None, a live listener, a stopped one
    spc,              \* position of the thread that called start()
    event             \* history: the last call or callback and what it did

lifecycleVars == <<running, current_keys, pynput_listener, spc, event>>

vars == <<serverVars, observedVars, clientVars, connectVars, listenerVars,
          singletonVars, lifecycleVars>>

(***************************************************************************)
(* tts_server.py                                                           *)
(***************************************************************************)
\* threads inside TTS(model_name=k), line 126
Loading(k) == {t \in AllThreads : pc[t] = "loading" /\ model_name[t] = k}

\* the overlap sets once t's call is over
Without(t) == [u \in AllThreads |-> overlap[u] \ {t}]

\* threads inside the construction of an engine other than the one t asks for
OtherLoads(t) ==
    {u \in AllThreads : pc[u] = "loading" /\ model_name[u] # model_name[t]}

\* ensure_reference_audio as it would be if it synthesised first and downloaded
\* when that failed
ensure_reference_audio_synthesis_first(exists, download, load, synth) ==
    IF exists THEN <<ReferencePath, FALSE, <<>> >>
    ELSE IF load /\ synth
         THEN <<ReferencePath, TRUE, << <<"synthesis", TRUE>> >> >>
    ELSE IF download
         THEN <<ReferencePath, load, << <<"synthesis", FALSE>>, <<"download", TRUE>> >> >>
    ELSE <<None, load, << <<"synthesis", FALSE>>, <<"download", FALSE>> >> >>

\* ensure_reference_audio, lines 66-95.  The outcome of each external step is
\* an input: the file exists, the download works, the fallback engine loads,
\* the fallback synthesis works.  Result: <<returned value, engine constructed,
\* steps attempted in their order, each with its success>>; every exception is
\* caught (lines 80, 93), so each outcome is a returned value.
ensure_reference_audio(exists, download, load, synth) ==
    IF exists THEN <<ReferencePath, FALSE, <<>> >>
    ELSE IF download THEN <<ReferencePath, FALSE, << <<"download", TRUE>> >> >>
    ELSE IF ~load
         THEN <<None, FALSE, << <<"download", FALSE>>, <<"synthesis", FALSE>> >> >>
    ELSE IF synth
         THEN <<ReferencePath, TRUE, << <<"download", FALSE>>, <<"synthesis", TRUE>> >> >>
    ELSE <<None, TRUE, << <<"download", FALSE>>, <<"synthesis", FALSE>> >> >>

\* TTSModelManager.__init__ at module import (line 196), lines 109-118
ManagerInit ==
    /\ pc[MainThread] = "construct"
    /\ \E exists, download, load, synth \in BOOLEAN :
         LET r == ensure_reference_audio(exists, download, load, synth) IN
         /\ reference_audio' = r[1]
         /\ loads' = IF r[2] THEN [loads EXCEPT ![DefaultModel] = @ + 1] ELSE loads
         /\ creation' = [exists |-> exists, engine |-> r[2], steps |-> r[3]]
    /\ pc' = [pc EXCEPT ![MainThread] = "main"]
    /\ UNCHANGED <<models, model_name, tts, exc, resp, overlap, busy>>
    /\ UNCHANGED <<req, call, inventory, skip_preload, constructions>>
    /\ UNCHANGED <<clientVars, connectVars, listenerVars, singletonVars, lifecycleVars>>

\* values of the SKIP_PRELOAD environment variable; "0" is also what the
\* lookup gives when the variable is not set (line 249)
SkipValues == {"0", "1", "true", "yes", "True", "no"}

\* str.lower on these values
Lower(v) == IF v = "True" THEN "true" ELSE v

\* line 249: os.environ.get('SKIP_PRELOAD', '0').lower() in ('1', 'true', 'yes')
SkipPreload(v) == Lower(v) \in {"1", "true", "yes"}

\* __main__, lines 247-259: the skip flag is read, preloading starts
MainStart ==
    /\ pc[MainThread] = "main"
    /\ \E v \in SkipValues :
         /\ skip_preload' = SkipPreload(v)
         /\ IF SkipPreload(v)
            THEN /\ pc' = [pc EXCEPT ![MainThread] = "serving"]
                 /\ UNCHANGED model_name
            ELSE /\ pc' = [pc EXCEPT ![MainThread] = "get_model"]
                 /\ model_name' = [model_name EXCEPT ![MainThread] = DefaultModel]
    /\ UNCHANGED <<models, reference_audio, tts, exc, resp, loads,
                   overlap, busy>>
    /\ UNCHANGED <<req, call, inventory, creation, constructions>>
    /\ UNCHANGED <<clientVars, connectVars, listenerVars, singletonVars, lifecycleVars>>

\* get_model as it would be with the whole body under the manager's _lock:
\* no lookup while another thread is between its test and its return
GetModelCheckLocked(t) ==
    /\ pc[t] = "get_model"
    /\ \A u \in AllThreads \ {t} : pc[u] \notin {"loading", "return"}
    /\ IF model_name[t] \in DOMAIN models
       THEN /\ pc' = [pc EXCEPT ![t] = "return"]
            /\ busy' = [busy EXCEPT ![t] = OtherLoads(t) # {}]
            /\ UNCHANGED overlap
       ELSE /\ pc' = [pc EXCEPT ![t] = "loading"]
            /\ overlap' = [overlap EXCEPT ![t] = {}]
            /\ UNCHANGED busy
    /\ UNCHANGED <<models, reference_audio, model_name, tts, exc, resp, loads>>
    /\ UNCHANGED <<observedVars, clientVars, connectVars, listenerVars, singletonVars, lifecycleVars>>

\* get_model line 122: the membership test, unsynchronised
GetModelCheck(t) ==
    /\ pc[t] = "get_model"
    /\ IF model_name[t] \in DOMAIN models
       THEN /\ pc' = [pc EXCEPT ![t] = "return"]
            /\ busy' = [busy EXCEPT ![t] = OtherLoads(t) # {}]
            /\ UNCHANGED overlap
       ELSE /\ pc' = [pc EXCEPT ![t] = "loading"]
            /\ overlap' = [u \in AllThreads |->
                             IF u = t THEN Loading(model_name[t])
                             ELSE IF u \in Loading(model_name[t])
                                  THEN overlap[u] \cup {t}
                                  ELSE overlap[u]]
            /\ UNCHANGED busy
    /\ UNCHANGED <<models, reference_audio, model_name, tts, exc, resp, loads>>
    /\ UNCHANGED <<observedVars, clientVars, connectVars, listenerVars, singletonVars, lifecycleVars>>

\* the cache as it would be if a failed load left a placeholder entry behind
ModelsAfterFailureKept(m, k) == (k :> 0) @@ m

\* the cache after a load of k has raised, lines 130-132
ModelsAfterFailure(m, k) == m

\* the cache after a load of k has produced instance n, line 129
ModelsAfterLoad(m, k, n) == (k :> n) @@ m

\* get_model lines 126-129: the engine is constructed and stored
LoadOk(t) ==
    /\ pc[t] = "loading"
    /\ LET k == model_name[t] IN
       /\ loads' = [loads EXCEPT ![k] = @ + 1]
       /\ models' = ModelsAfterLoad(models, k, loads[k] + 1)
    /\ pc' = [pc EXCEPT ![t] = "return"]
    /\ UNCHANGED <<reference_audio, model_name, tts, exc, resp, overlap, busy>>
    /\ UNCHANGED <<observedVars, clientVars, connectVars, listenerVars, singletonVars, lifecycleVars>>

\* get_model lines 126, 130-132: the construction raises, the exception goes up
LoadFail(t) ==
    /\ pc[t] = "loading"
    /\ models' = ModelsAfterFailure(models, model_name[t])
    /\ exc' = [exc EXCEPT ![t] = "LoadFailed"]
    /\ pc' = [pc EXCEPT ![t] = "raised"]
    /\ overlap' = [overlap EXCEPT ![t] = {}]
    /\ UNCHANGED <<reference_audio, model_name, tts, resp, loads, busy>>
    /\ UNCHANGED <<observedVars, clientVars, connectVars, listenerVars, singletonVars, lifecycleVars>>

\* get_model line 133: the instance now in the dictionary is returned
GetModelReturn(t) ==
    /\ pc[t] = "return"
    /\ tts' = [tts EXCEPT ![t] = models[model_name[t]]]
    /\ pc' = [pc EXCEPT ![t] = "got"]
    /\ overlap' = [overlap EXCEPT ![t] = {}]
    /\ UNCHANGED <<models, reference_audio, model_name, exc, resp, loads, busy>>
    /\ UNCHANGED <<observedVars, clientVars, connectVars, listenerVars, singletonVars, lifecycleVars>>

\* __main__ lines 254-257: the next preload, or serving
MainNext ==
    /\ pc[MainThread] = "got"
    /\ IF model_name[MainThread] = DefaultModel
       THEN /\ model_name' = [model_name EXCEPT ![MainThread] = XttsModel]
            /\ pc' = [pc EXCEPT ![MainThread] = "get_model"]
       ELSE /\ pc' = [pc EXCEPT ![MainThread] = "serving"]
            /\ model_name' = [model_name EXCEPT ![MainThread] = None]
    /\ tts' = [tts EXCEPT ![MainThread] = 0]
    /\ busy' = [busy EXCEPT ![MainThread] = FALSE]
    /\ overlap' = Without(MainThread)
    /\ UNCHANGED <<models, reference_audio, exc, resp, loads>>
    /\ UNCHANGED <<observedVars, clientVars, connectVars, listenerVars, singletonVars, lifecycleVars>>

\* __main__ lines 260-266: a preload failure is logged, the server starts
MainExcept ==
    /\ pc[MainThread] = "raised"
    /\ pc' = [pc EXCEPT ![MainThread] = "serving"]
    /\ exc' = [exc EXCEPT ![MainThread] = None]
    /\ model_name' = [model_name EXCEPT ![MainThread] = None]
    /\ overlap' = Without(MainThread)
    /\ UNCHANGED <<models, reference_audio, tts, resp, loads, busy>>
    /\ UNCHANGED <<observedVars, clientVars, connectVars, listenerVars, singletonVars, lifecycleVars>>

\* generate_speech lines 204-215: the model the request is served with
ChooseModel(given, language, cjk) ==
    LET m == IF given = None THEN DefaultModel ELSE given IN
    IF language = None /\ cjk /\ m # XttsModel THEN XttsModel ELSE m

\* the models requests are served with, over the requests' model_name (or
\* none), language (or none) and text (with a CJK character or without)
ChosenModels ==
    {ChooseModel(given, language, cjk) :
        given \in ModelNames \cup {None}, language \in {None, "en"}, cjk \in BOOLEAN}

\* generate_speech lines 199-218 up to the call of get_model (line 139)
TtsRequest(t) ==
    /\ pc[MainThread] = "serving"
    /\ pc[t] = "idle"
    /\ \E has_text \in BOOLEAN :
         IF ~has_text
         THEN /\ resp' = [resp EXCEPT ![t] = 400]
              /\ UNCHANGED <<pc, model_name>>
         ELSE /\ \E m \in ChosenModels : model_name' = [model_name EXCEPT ![t] = m]
              /\ pc' = [pc EXCEPT ![t] = "get_model"]
              /\ resp' = [resp EXCEPT ![t] = 0]
    /\ UNCHANGED <<models, reference_audio, tts, exc, loads, overlap, busy>>
    /\ UNCHANGED <<observedVars, clientVars, connectVars, listenerVars, singletonVars, lifecycleVars>>

\* the text of a request, by kind: empty, whitespace only, ASCII only and not
\* blank, with a character of U+4E00..U+9FFF
RequestTexts == {"", " ", "ascii", "cjk"}

\* lines 212, 163: any(u'\u4e00' <= c <= u'\u9fff' for c in text)
HasCJK(text) == text = "cjk"

\* request.json: no body or no 'text' key (has_text = FALSE), or a text with an
\* optional model_name and an optional language
Requests ==
    {[has_text |-> FALSE, text |-> None, model_name |-> None, language |-> None]}
    \cup [has_text : {TRUE}, text : RequestTexts,
          model_name : ModelNames \cup {None}, language : {None, "en", "zh-cn"}]

\* generate_speech lines 199-218 up to the call of get_model (line 139), the
\* request kept in view
Dispatch(t) ==
    /\ pc[MainThread] = "serving"
    /\ pc[t] = "idle"
    /\ \E r \in Requests :
         /\ req' = [req EXCEPT ![t] = r]
         /\ IF ~r.has_text
            THEN /\ resp' = [resp EXCEPT ![t] = 400]
                 /\ UNCHANGED <<pc, model_name>>
            ELSE /\ model_name' = [model_name EXCEPT ![t] =
                        ChooseModel(r.model_name, r.language, HasCJK(r.text))]
                 /\ pc' = [pc EXCEPT ![t] = "get_model"]
                 /\ resp' = [resp EXCEPT ![t] = 0]
    /\ UNCHANGED <<models, reference_audio, tts, exc, loads, overlap, busy>>
    /\ UNCHANGED <<call, inventory, creation, skip_preload, constructions>>
    /\ UNCHANGED <<clientVars, connectVars, listenerVars, singletonVars, lifecycleVars>>

\* text_to_speech lines 141-183: parameters are prepared, tts_to_file is entered
SynthEnter(t) ==
    /\ t \in Threads
    /\ pc[t] = "got"
    /\ pc' = [pc EXCEPT ![t] = "tts_to_file"]
    /\ busy' = [busy EXCEPT ![t] = FALSE]
    /\ UNCHANGED <<models, reference_audio, model_name, tts, exc, resp, loads, overlap>>
    /\ UNCHANGED <<observedVars, clientVars, connectVars, listenerVars, singletonVars, lifecycleVars>>

\* the attributes of the engine constructed for k that text_to_speech reads
\* (lines 151-161), as the TTS library reports them: the LJSpeech engine has
\* one speaker and one language; the XTTS engine is multilingual with a
\* language list, and, by the version of the library, reports no speaker
\* manager, a speaker manager without names, or its built-in speaker names
Attributes(k) ==
    IF k = XttsModel
    THEN {a \in [is_multi_speaker : BOOLEAN,
                 speakers : {<<>>, <<"Claribel Dervla", "Daisy Studious">>},
                 is_multi_lingual : {TRUE},
                 languages : {<<"en", "zh-cn">>}] :
            ~a.is_multi_speaker => a.speakers = <<>>}
    ELSE {[is_multi_speaker |-> FALSE, speakers |-> <<>>,
           is_multi_lingual |-> FALSE, languages |-> <<>>]}

\* the language as it would be inferred by a server that knew English only
InferLanguageEnglish(text) == "en"

\* text_to_speech lines 163-166: the language inferred from the text
InferLanguage(text) == IF HasCJK(text) THEN "zh-cn" ELSE "en"

\* text_to_speech lines 146-180: the speaker, language and speaker_wav entries
\* of tts_params (None: the key is not passed), for model_name m, an engine
\* with attributes a, the language and text of the call and the manager's
\* reference_audio
tts_params(m, a, language, text, ref) ==
    LET is_xtts_v2 == m = XttsModel
        named == a.is_multi_speaker /\ a.speakers # <<>>
    IN  [speaker |-> IF named THEN a.speakers[1] ELSE None,
         speaker_wav |-> IF a.is_multi_speaker /\ ~named /\ is_xtts_v2 /\ ref # None
                         THEN ref ELSE None,
         language |-> IF language = None /\ a.is_multi_lingual /\ a.languages # <<>>
                      THEN InferLanguage(text) ELSE language]

\* text_to_speech lines 141-183 with the invocation kept in view: the engine's
\* attributes are read, tts_params is prepared, tts_to_file is entered
Prepare(t) ==
    /\ t \in Threads
    /\ pc[t] = "got"
    /\ \E a \in Attributes(model_name[t]) :
         call' = [model |-> model_name[t], attrs |-> a,
                  params |-> tts_params(model_name[t], a, req[t].language,
                                        req[t].text, reference_audio)]
    /\ pc' = [pc EXCEPT ![t] = "tts_to_file"]
    /\ busy' = [busy EXCEPT ![t] = FALSE]
    /\ UNCHANGED <<models, reference_audio, model_name, tts, exc, resp, loads, overlap>>
    /\ UNCHANGED <<req, inventory, creation, skip_preload, constructions>>
    /\ UNCHANGED <<clientVars, connectVars, listenerVars, singletonVars, lifecycleVars>>

\* successful loads of k by get_model so far: the constructions of k, less the
\* one ensure_reference_audio made for itself (line 86)
CacheLoads(k) ==
    loads[k] - (IF k = DefaultModel /\ creation # NotCreated /\ creation.engine
                THEN 1 ELSE 0)

\* the inventory as it would be if it listed the models the server preloads,
\* loaded or not
loaded_models_preloaded(m) == ModelNames

\* list_models line 233: list(model_manager.models.keys())
loaded_models(m) == DOMAIN m

\* list_models, lines 228-238, answering a GET /models on thread t; at and
\* loading: the successful loads and the keys being loaded at the time of the
\* answer
ListModels(t) ==
    /\ t \in Threads
    /\ pc[MainThread] = "serving"
    /\ pc[t] = "idle"
    /\ inventory' = [status |-> 200,
                     loaded_models |-> loaded_models(models),
                     reference_audio |-> reference_audio,
                     at |-> [k \in ModelNames |-> CacheLoads(k)],
                     loading |-> {k \in ModelNames : Loading(k) # {}}]
    /\ UNCHANGED serverVars
    /\ UNCHANGED <<req, call, creation, skip_preload, constructions>>
    /\ UNCHANGED <<clientVars, connectVars, listenerVars, singletonVars, lifecycleVars>>

\* the manager's fields as they would be if __init__ ran its body at every call
ManagerFieldsAlways(initialized, old, new) == new

\* TTSModelManager.__init__, lines 110-117: the fields after the call, from the
\* _initialized flag, the fields before and what the body would assign
ManagerFields(initialized, old, new) == IF initialized THEN old ELSE new

\* TTSModelManager() called once more by code of the process, lines 102-118:
\* __new__ returns the instance there is, __init__ runs on it.  The file
\* ensure_reference_audio made is still there.
ManagerAgain ==
    /\ pc[MainThread] = "serving"
    /\ constructions < MaxConstructions
    /\ constructions' = constructions + 1
    /\ \E exists, download, load, synth \in BOOLEAN :
         /\ reference_audio = ReferencePath => exists
         /\ LET r == ensure_reference_audio(exists, download, load, synth)
                f == ManagerFields(pc[MainThread] # "construct",
                         [models |-> models, reference_audio |-> reference_audio,
                          creation |-> creation],
                         [models |-> <<>>, reference_audio |-> r[1],
                          creation |-> [exists |-> exists, engine |-> r[2], steps |-> r[3]]])
            IN /\ models' = f.models
               /\ reference_audio' = f.reference_audio
               /\ creation' = f.creation
    /\ UNCHANGED <<pc, model_name, tts, exc, resp, loads, overlap, busy>>
    /\ UNCHANGED <<req, call, inventory, skip_preload>>
    /\ UNCHANGED <<clientVars, connectVars, listenerVars, singletonVars, lifecycleVars>>

\* text_to_speech lines 183-188, generate_speech line 221: the audio is sent
SynthOk(t) ==
    /\ pc[t] = "tts_to_file"
    /\ pc' = [pc EXCEPT ![t] = "idle"]
    /\ resp' = [resp EXCEPT ![t] = 200]
    /\ tts' = [tts EXCEPT ![t] = 0]
    /\ model_name' = [model_name EXCEPT ![t] = None]
    /\ overlap' = Without(t)
    /\ UNCHANGED <<models, reference_audio, exc, loads, busy>>
    /\ UNCHANGED <<observedVars, clientVars, connectVars, listenerVars, singletonVars, lifecycleVars>>

\* text_to_speech lines 183, 190-192: the engine raises
SynthFail(t) ==
    /\ pc[t] = "tts_to_file"
    /\ exc' = [exc EXCEPT ![t] = "SynthesisFailed"]
    /\ pc' = [pc EXCEPT ![t] = "raised"]
    /\ UNCHANGED <<models, reference_audio, model_name, tts, resp, loads,
                   overlap, busy>>
    /\ UNCHANGED <<observedVars, clientVars, connectVars, listenerVars, singletonVars, lifecycleVars>>

\* the handler as it would be if its except clause caught the synthesis failure
\* alone: a load failure leaves the handler without a response of its own
TtsExceptSynthesisOnly(t) ==
    /\ t \in Threads
    /\ pc[t] = "raised"
    /\ pc' = [pc EXCEPT ![t] = "idle"]
    /\ resp' = [resp EXCEPT ![t] = IF exc[t] = "SynthesisFailed" THEN 500 ELSE 0]
    /\ exc' = [exc EXCEPT ![t] = None]
    /\ tts' = [tts EXCEPT ![t] = 0]
    /\ model_name' = [model_name EXCEPT ![t] = None]
    /\ overlap' = Without(t)
    /\ UNCHANGED <<models, reference_audio, loads, busy>>
    /\ UNCHANGED <<observedVars, clientVars, connectVars, listenerVars, singletonVars, lifecycleVars>>

\* generate_speech lines 224-226: any exception becomes a 500 response
TtsExcept(t) ==
    /\ t \in Threads
    /\ pc[t] = "raised"
    /\ pc' = [pc EXCEPT ![t] = "idle"]
    /\ resp' = [resp EXCEPT ![t] = 500]
    /\ exc' = [exc EXCEPT ![t] = None]
    /\ tts' = [tts EXCEPT ![t] = 0]
    /\ model_name' = [model_name EXCEPT ![t] = None]
    /\ overlap' = Without(t)
    /\ UNCHANGED <<models, reference_audio, loads, busy>>
    /\ UNCHANGED <<observedVars, clientVars, connectVars, listenerVars, singletonVars, lifecycleVars>>

\* the class as defined, lines 98-100: no instance, nobody constructing
SingletonInit ==
    /\ _instance = 0
    /\ _initialized = FALSE
    /\ kpc = [t \in AllThreads |-> "idle"]
    /\ got = [t \in AllThreads |-> 0]
    /\ objects = 0
    /\ bodies = 0

\* __new__ as it would be if it made an object at every call
instance_fresh(instance, fresh) == fresh

\* __new__ lines 104-107: the object returned, the existing one if there is one
instance_of(instance, fresh) == IF instance = 0 THEN fresh ELSE instance

\* thread t may call TTSModelManager(): the main thread at module import, line
\* 196; any other thread once the module is imported, for as long as the bound
\* on further constructions allows
MayConstruct(t) ==
    IF t = MainThread
    THEN pc[MainThread] = "construct"
    ELSE pc[MainThread] # "construct" /\ pc[t] = "idle"
         /\ constructions < MaxConstructions

\* __new__, lines 102-107, the whole of it under cls._lock
__new__(t) ==
    /\ kpc[t] = "idle"
    /\ MayConstruct(t)
    /\ _instance' = instance_of(_instance, objects + 1)
    /\ objects' = IF _instance' # _instance THEN objects + 1 ELSE objects
    /\ _initialized' = IF _instance = 0 THEN FALSE ELSE _initialized
    /\ got' = [got EXCEPT ![t] = _instance']
    /\ kpc' = [kpc EXCEPT ![t] = "__init__"]
    /\ constructions' = IF t = MainThread THEN constructions ELSE constructions + 1
    /\ UNCHANGED bodies
    /\ UNCHANGED serverVars
    /\ UNCHANGED <<req, call, inventory, creation, skip_preload>>
    /\ UNCHANGED <<clientVars, connectVars, listenerVars, lifecycleVars>>

\* the constructor returns to thread t; at module import the main thread goes on
Constructed(t) ==
    /\ kpc' = [kpc EXCEPT ![t] = "idle"]
    /\ pc' = IF t = MainThread THEN [pc EXCEPT ![t] = "main"] ELSE pc

\* __init__ line 110: the flag is read, outside any lock
__init__Test(t) ==
    /\ kpc[t] = "__init__"
    /\ IF _initialized
       THEN Constructed(t)
       ELSE kpc' = [kpc EXCEPT ![t] = "body"] /\ UNCHANGED pc
    /\ UNCHANGED <<models, reference_audio, model_name, tts, exc, resp, loads,
                   overlap, busy>>
    /\ UNCHANGED <<_instance, _initialized, got, objects, bodies>>
    /\ UNCHANGED <<observedVars, clientVars, connectVars, listenerVars, lifecycleVars>>

\* __init__ lines 112-116: the dictionary is made and the reference audio found
__init__Body(t) ==
    /\ kpc[t] = "body"
    /\ \E exists, download, load, synth \in BOOLEAN :
         LET r == ensure_reference_audio(exists, download, load, synth) IN
         /\ reference_audio' = r[1]
         /\ loads' = IF r[2] THEN [loads EXCEPT ![DefaultModel] = @ + 1] ELSE loads
         /\ creation' = [exists |-> exists, engine |-> r[2], steps |-> r[3]]
    /\ models' = <<>>
    /\ bodies' = bodies + 1
    /\ kpc' = [kpc EXCEPT ![t] = "flag"]
    /\ UNCHANGED <<pc, model_name, tts, exc, resp, overlap, busy>>
    /\ UNCHANGED <<req, call, inventory, skip_preload, constructions>>
    /\ UNCHANGED <<_instance, _initialized, got, objects>>
    /\ UNCHANGED <<clientVars, connectVars, listenerVars, lifecycleVars>>

\* __init__ lines 117-118: the flag is set, the constructor returns
__init__Flag(t) ==
    /\ kpc[t] = "flag"
    /\ _initialized' = TRUE
    /\ Constructed(t)
    /\ UNCHANGED <<models, reference_audio, model_name, tts, exc, resp, loads,
                   overlap, busy>>
    /\ UNCHANGED <<_instance, got, objects, bodies>>
    /\ UNCHANGED <<observedVars, clientVars, connectVars, listenerVars, lifecycleVars>>

ServerInit ==
    /\ models = <<>>
    /\ reference_audio = None
    /\ pc = [t \in AllThreads |-> IF t = MainThread THEN "construct" ELSE "idle"]
    /\ model_name = [t \in AllThreads |-> None]
    /\ tts = [t \in AllThreads |-> 0]
    /\ exc = [t \in AllThreads |-> None]
    /\ resp = [t \in AllThreads |-> 0]
    /\ loads = [k \in ModelNames |-> 0]
    /\ overlap = [t \in AllThreads |-> {}]
    /\ busy = [t \in AllThreads |-> FALSE]
    /\ req = [t \in AllThreads |-> NoRequest]
    /\ call = NoCall
    /\ inventory = NoInventory
    /\ creation = NotCreated
    /\ skip_preload = FALSE
    /\ constructions = 0

ServerNext ==
    \/ ManagerInit
    \/ MainStart
    \/ MainNext
    \/ MainExcept
    \/ \E t \in AllThreads : GetModelCheck(t)
    \/ \E t \in AllThreads : LoadOk(t)
    \/ \E t \in AllThreads : LoadFail(t)
    \/ \E t \in AllThreads : GetModelReturn(t)
    \/ \E t \in Threads : TtsRequest(t)
    \/ \E t \in Threads : SynthEnter(t)
    \/ \E t \in Threads : SynthOk(t)
    \/ \E t \in Threads : SynthFail(t)
    \/ \E t \in Threads : TtsExcept(t)

\* the manager constructed step by step: at module import by the main thread,
\* which then preloads, and again by other threads at any time after the import
SingletonNext ==
    \/ \E t \in AllThreads : __new__(t)
    \/ \E t \in AllThreads : __init__Test(t)
    \/ \E t \in AllThreads : __init__Body(t)
    \/ \E t \in AllThreads : __init__Flag(t)
    \/ MainStart
    \/ MainNext
    \/ MainExcept
    \/ GetModelCheck(MainThread)
    \/ LoadOk(MainThread)
    \/ LoadFail(MainThread)
    \/ GetModelReturn(MainThread)

\* the server with its requests served one after the other, each kept in view
DispatchNext ==
    \/ ManagerInit
    \/ MainStart
    \/ MainNext
    \/ MainExcept
    \/ \E t \in AllThreads : GetModelCheck(t)
    \/ \E t \in AllThreads : LoadOk(t)
    \/ \E t \in AllThreads : LoadFail(t)
    \/ \E t \in AllThreads : GetModelReturn(t)
    \/ Dispatch(1)
    \/ Prepare(1)
    \/ SynthOk(1)
    \/ SynthFail(1)
    \/ TtsExcept(1)

\* the server with /tts requests on one thread, /models requests on another
\* and further constructions of the manager
InventoryNext ==
    \/ ManagerInit
    \/ MainStart
    \/ MainNext
    \/ MainExcept
    \/ \E t \in AllThreads : GetModelCheck(t)
    \/ \E t \in AllThreads : LoadOk(t)
    \/ \E t \in AllThreads : LoadFail(t)
    \/ \E t \in AllThreads : GetModelReturn(t)
    \/ TtsRequest(1)
    \/ SynthEnter(1)
    \/ SynthOk(1)
    \/ SynthFail(1)
    \/ TtsExcept(1)
    \/ ListModels(2)
    \/ ManagerAgain

(***************************************************************************)
(* vpn_compatible_tts.py, tts_client.py                                    *)
(***************************************************************************)
Handlers == 1..NHandlers
Workers == 1..MaxWorkers

\* server_port, line 51, and max_retries, line 54, as __init__ defaults them
ServerPort == 8090
DefaultMaxRetries == 3
Url(host) == <<"http", host, ServerPort>>

\* what socket.gethostname / gethostbyname give (lines 109-110): nothing (they
\* raise), a loopback address, or an address of the host
Resolutions ==
    { [ok |-> FALSE, ip |-> None, hostname |-> None],
      [ok |-> TRUE, ip |-> "127.0.0.1", hostname |-> "myhost"],
      [ok |-> TRUE, ip |-> "192.168.1.5", hostname |-> "myhost"] }

\* _get_potential_server_urls, lines 94-118
_get_potential_server_urls(res) ==
    <<Url("localhost"), Url("127.0.0.1"), Url("0.0.0.0"), Url("[::1]")>>
    \o (IF res.ok /\ res.ip # "127.0.0.1"
        THEN <<Url(res.ip), Url(res.hostname)>>
        ELSE <<>>)

Range(seq) == {seq[i] : i \in 1..Len(seq)}

AllUrls == UNION {Range(_get_potential_server_urls(res)) : res \in Resolutions}

\* the sets of candidates that may be answering when the list is probed
HealthySets(urls) == {h \in SUBSET Range(urls) : Cardinality(h) <= MaxHealthy}

\* no URL: the loop of _connect_to_server ended without a server
NoServer == <<>>

\* what a candidate does when it is probed: the TCP connection is refused; it
\* connects and GET /health answers an error status; it answers 200 with
\* {"status": "running"}; it answers 200 with another body
Behaviours == {"refused", "http_error", "running", "not_running"}

\* TTSClient.check_server_health, tts_client.py lines 31-38: session.get of
\* /health and raise_for_status; the body is not read.  sent: the GET went out
\* (the connection was made); passed: True was returned; reason: the exception
\* wrapped in the ConnectionError raised otherwise
check_server_health(b) ==
    [sent |-> b # "refused",
     passed |-> b \in {"running", "not_running"},
     reason |-> IF b = "refused" THEN "ConnectionError"
                ELSE IF b = "http_error" THEN "HTTPError" ELSE None]

\* the loop of _connect_to_server as it would be if it went on after a
\* candidate passed and kept the last one that did
RECURSIVE KeepLast(_, _, _, _, _)
KeepLast(urls, answers, i, probes, found) ==
    IF i > Len(urls)
    THEN [client |-> found, probes |-> probes,
          ended |-> IF found = NoServer THEN "SystemExit" ELSE "return"]
    ELSE LET p == check_server_health(answers[urls[i]]) IN
         KeepLast(urls, answers, i + 1, Append(probes, <<urls[i], p>>),
                  IF p.passed THEN urls[i] ELSE found)
ConnectLoopLast(urls, answers, i, probes) ==
    KeepLast(urls, answers, i, probes, NoServer)

\* _connect_to_server lines 124-141, from candidate i on: each URL is probed in
\* turn (lines 127-128); the first that passes becomes self.client and the
\* function returns (lines 129-131); one that fails is logged (line 133); when
\* the list is exhausted sys.exit(1) raises SystemExit (line 141).
\* probes: the candidates probed so far, each with what its probe gave
RECURSIVE ConnectLoop(_, _, _, _)
ConnectLoop(urls, answers, i, probes) ==
    IF i > Len(urls)
    THEN [client |-> NoServer, probes |-> probes, ended |-> "SystemExit"]
    ELSE LET p == check_server_health(answers[urls[i]]) IN
         IF p.passed
         THEN [client |-> urls[i], probes |-> Append(probes, <<urls[i], p>>),
               ended |-> "return"]
         ELSE ConnectLoop(urls, answers, i + 1, Append(probes, <<urls[i], p>>))

\* the candidates of healthy answer /health, the others refuse the connection
AnswersOf(urls, healthy) ==
    [u \in Range(urls) |-> IF u \in healthy THEN "running" ELSE "refused"]

\* _connect_to_server, lines 120-141: self.client after the call (healthy: the
\* URLs whose check_server_health passes), NoServer when it ended in sys.exit(1)
_connect_to_server(urls, healthy) ==
    ConnectLoop(urls, AnswersOf(urls, healthy), 1, <<>>).client

\* what _connect_to_server can come to, over what the host names resolve to and
\* which candidates answer
Selections ==
    UNION {{_connect_to_server(_get_potential_server_urls(res), healthy) :
               healthy \in HealthySets(_get_potential_server_urls(res))} :
           res \in Resolutions}

\* how one POST /tts ends in TTSClient.text_to_speech (tts_client.py 91-96, 115-124):
\* audio received, or an exception: no connection / timeout, HTTP 400, HTTP 500
RequestOutcomes == {"ok", "TransportError", "BadRequest", "ApplicationError"}

\* _handle_hotkey lines 182-184: the flag is read, outside the lock
HandlerCheck(h) ==
    /\ hpc[h] = "idle"
    /\ ~is_processing
    /\ hpc' = [hpc EXCEPT ![h] = "checked"]
    /\ UNCHANGED <<max_retries, client, is_processing, last_text, wpc, wmodel,
                   attempt, err, nreq, nsel, outcome, prev_err, reported>>
    /\ UNCHANGED <<serverVars, observedVars, connectVars, listenerVars, singletonVars, lifecycleVars>>

\* _handle_hotkey lines 186-187: with self.lock: self.is_processing = True
HandlerSetFlag(h) ==
    /\ hpc[h] = "checked"
    /\ is_processing' = TRUE
    /\ hpc' = [hpc EXCEPT ![h] = "flagged"]
    /\ UNCHANGED <<max_retries, client, last_text, wpc, wmodel, attempt, err,
                   nreq, nsel, outcome, prev_err, reported>>
    /\ UNCHANGED <<serverVars, observedVars, connectVars, listenerVars, singletonVars, lifecycleVars>>

\* _handle_hotkey lines 208-217 (self.model_name is None): the model for the text
SelectModel(text) == IF text = "cjk" THEN XttsModel ELSE DefaultModel

\* the clipboard after strip(), by kind: empty, ASCII only, with a CJK character
Texts == {"", "ascii", "cjk"}

FreeWorkers == {w \in Workers : wpc[w] = "free"}

\* the three listener programs
Kinds == {"hotkey_tts", "vpn_compatible_tts", "standalone_tts"}

\* no trigger has read the clipboard yet
NoPaste == "NoPaste"

\* what pyperclip.paste() gives, by kind: nothing, blanks only, ASCII text bare
\* and between blanks, text with a CJK character; or it raises
Pastes == {"", " ", "ascii", " ascii ", "cjk", "raises"}

\* str.strip() on the kinds of Pastes
strip(t) == IF t = " " THEN "" ELSE IF t = " ascii " THEN "ascii" ELSE t

\* _read_clipboard as it would be if it handed the clipboard on unstripped
_read_clipboard_raw(paste) == IF paste = "raises" THEN "" ELSE paste

\* _read_clipboard, lines 143-149: the stripped clipboard, "" when paste raises
_read_clipboard(paste) == IF paste = "raises" THEN "" ELSE strip(paste)

\* _handle_hotkey lines 196-230 for the text read: an empty one releases the
\* flag and returns; otherwise the worker thread is started and last_text
\* updated; an exception on the way (raises) releases the flag
HandleText(h, text, raises, model) ==
    /\ hpc' = [hpc EXCEPT ![h] = "idle"]
    /\ IF text = "" \/ raises
       THEN /\ is_processing' = FALSE
            /\ UNCHANGED <<last_text, wpc, wmodel, attempt, err, nreq, nsel, outcome>>
       ELSE /\ FreeWorkers # {}
            /\ LET w == CHOOSE x \in FreeWorkers : \A y \in FreeWorkers : x <= y IN
               /\ wpc' = [wpc EXCEPT ![w] = "request"]
               /\ wmodel' = [wmodel EXCEPT ![w] = model]
               /\ attempt' = [attempt EXCEPT ![w] = 0]
               /\ nreq' = [nreq EXCEPT ![w] = 0]
               /\ nsel' = [nsel EXCEPT ![w] = 0]
               /\ outcome' = [outcome EXCEPT ![w] = None]
            /\ last_text' = text
            /\ UNCHANGED <<is_processing, err>>
    /\ UNCHANGED <<max_retries, client, prev_err, reported>>
    /\ UNCHANGED <<serverVars, observedVars, connectVars, singletonVars, lifecycleVars>>

\* _handle_hotkey lines 189-230: the clipboard is read; an empty one releases the
\* flag; otherwise the worker thread is started and last_text updated; an
\* exception on the way (raises) releases the flag
HandlerBody(h) ==
    /\ hpc[h] = "flagged"
    /\ \E text \in Texts, raises \in BOOLEAN :
         HandleText(h, text, raises, SelectModel(text))
    /\ UNCHANGED listenerVars

\* _handle_hotkey lines 189-230, with what the clipboard held recorded
HandlerRead(h) ==
    /\ hpc[h] = "flagged"
    /\ \E paste \in Pastes, raises \in BOOLEAN :
         /\ clipboard' = paste
         /\ HandleText(h, _read_clipboard(paste), raises,
                       SelectModel(_read_clipboard(paste)))
    /\ UNCHANGED <<kind, model_arg, en_tts, ml_tts, engine_calls, fallbacks>>

\* the exception the raise would hand on if it kept the one caught before
RaisedErrorEarlier(earlier, e) == IF earlier = None THEN e ELSE earlier

\* line 256, the bare raise: the exception being handled, e of line 249, goes
\* to the outer handler (lines 257-258); one caught earlier is gone
RaisedError(earlier, e) == e

\* nothing logged yet
NoReport == <<>>

\* the except block as it would be if it reconnected after every failed attempt
AfterFailureReconnectAlways(a) == "reconnect"

\* the except block as it would be if it slept and retried without reconnecting
AfterFailureNoReconnect(a) == IF a < max_retries - 1 THEN "sleep" ELSE "finally"

\* where the except block of _convert_to_speech goes after failed attempt a,
\* lines 250-256: reconnect and retry, or re-raise into the outer handlers
AfterFailure(a) == IF a < max_retries - 1 THEN "reconnect" ELSE "finally"

\* _convert_to_speech lines 238-256: one self.client.text_to_speech call and
\* what follows it up to the next blocking call
WorkerRequest(w) ==
    /\ wpc[w] = "request"
    /\ nreq' = [nreq EXCEPT ![w] = @ + 1]
    /\ \E r \in RequestOutcomes :
         IF r = "ok"
         THEN /\ wpc' = [wpc EXCEPT ![w] = "finally"]
              /\ outcome' = [outcome EXCEPT ![w] = "Succeeded"]
              /\ UNCHANGED <<err, reported>>
         ELSE /\ err' = [err EXCEPT ![w] = r]
              /\ wpc' = [wpc EXCEPT ![w] = AfterFailure(attempt[w])]
              /\ outcome' = [outcome EXCEPT ![w] =
                                IF AfterFailure(attempt[w]) = "finally"
                                THEN "Failed" ELSE None]
              /\ reported' = [reported EXCEPT ![w] =
                                 IF AfterFailure(attempt[w]) = "finally"
                                 THEN [count |-> attempt[w] + 1,
                                       error |-> RaisedError(prev_err[w], r)]
                                 ELSE NoReport]
    /\ UNCHANGED <<max_retries, client, is_processing, last_text, hpc, wmodel,
                   attempt, nsel, prev_err>>
    /\ UNCHANGED <<serverVars, observedVars, connectVars, listenerVars, singletonVars, lifecycleVars>>

\* where the worker would go if sys.exit(1) ended the thread on the spot
AfterSystemExitThreadEnds == "free"

\* where the worker goes when sys.exit(1) raises SystemExit inside the try of
\* _convert_to_speech: past the except clauses into the finally block, line 260
AfterSystemExit == "finally"

\* _convert_to_speech line 253: _connect_to_server; sys.exit(1) raises
\* SystemExit, which no except clause of the worker catches
WorkerReconnect(w) ==
    /\ wpc[w] = "reconnect"
    /\ nsel' = [nsel EXCEPT ![w] = @ + 1]
    /\ \E found \in Selections :
         IF found # NoServer
         THEN /\ client' = found
              /\ wpc' = [wpc EXCEPT ![w] = "sleep"]
              /\ UNCHANGED <<outcome, err>>
         ELSE /\ wpc' = [wpc EXCEPT ![w] = AfterSystemExit]
              /\ outcome' = [outcome EXCEPT ![w] = "SystemExit"]
              /\ err' = [err EXCEPT ![w] = None]
              /\ UNCHANGED client
    /\ UNCHANGED <<max_retries, is_processing, last_text, hpc, wmodel, attempt, nreq,
                   prev_err, reported>>
    /\ UNCHANGED <<serverVars, observedVars, connectVars, listenerVars, singletonVars, lifecycleVars>>

\* _convert_to_speech line 254 and the next iteration of the loop, line 238
WorkerSleep(w) ==
    /\ wpc[w] = "sleep"
    /\ attempt' = [attempt EXCEPT ![w] = @ + 1]
    /\ err' = [err EXCEPT ![w] = None]
    /\ prev_err' = [prev_err EXCEPT ![w] = err[w]]
    /\ wpc' = [wpc EXCEPT ![w] = "request"]
    /\ UNCHANGED <<max_retries, client, is_processing, last_text, hpc, wmodel,
                   nreq, nsel, outcome, reported>>
    /\ UNCHANGED <<serverVars, observedVars, connectVars, listenerVars, singletonVars, lifecycleVars>>

\* _convert_to_speech lines 260-261: the flag is released, the thread ends
WorkerFinally(w) ==
    /\ wpc[w] = "finally"
    /\ is_processing' = FALSE
    /\ wpc' = [wpc EXCEPT ![w] = "free"]
    /\ wmodel' = [wmodel EXCEPT ![w] = None]
    /\ attempt' = [attempt EXCEPT ![w] = 0]
    /\ err' = [err EXCEPT ![w] = None]
    /\ nreq' = [nreq EXCEPT ![w] = 0]
    /\ nsel' = [nsel EXCEPT ![w] = 0]
    /\ outcome' = [outcome EXCEPT ![w] = None]
    /\ prev_err' = [prev_err EXCEPT ![w] = None]
    /\ reported' = [reported EXCEPT ![w] = NoReport]
    /\ UNCHANGED <<max_retries, client, last_text, hpc>>
    /\ UNCHANGED <<serverVars, observedVars, connectVars, listenerVars, singletonVars, lifecycleVars>>

\* __init__ lines 66-79 and the threads of the listener: nothing in flight
ListenerInit ==
    /\ max_retries \in 1..MaxRetries
    /\ is_processing = FALSE
    /\ last_text = ""
    /\ hpc = [h \in Handlers |-> "idle"]
    /\ wpc = [w \in Workers |-> "free"]
    /\ wmodel = [w \in Workers |-> None]
    /\ attempt = [w \in Workers |-> 0]
    /\ err = [w \in Workers |-> None]
    /\ nreq = [w \in Workers |-> 0]
    /\ nsel = [w \in Workers |-> 0]
    /\ outcome = [w \in Workers |-> None]
    /\ prev_err = [w \in Workers |-> None]
    /\ reported = [w \in Workers |-> NoReport]

\* the listener after __init__ (lines 66-81): _connect_to_server has found a
\* server, or the process would have exited
ClientInit ==
    /\ client \in AllUrls
    /\ ListenerInit

(***************************************************************************)
(* start(), stop() and the key callbacks (the same code in the three       *)
(* listeners)                                                              *)
(***************************************************************************)
\* the keys of the hotkey (lines 86-89), Esc, and another key
HotkeyKeys == {"ctrl", "alt", "cmd", "p"}
Keys == HotkeyKeys \cup {"esc", "x"}

\* no call or callback yet; n tells an event from the one before it
NoEvent == [op |-> "none", key |-> None, handler |-> FALSE, n |-> 0]

\* __init__ lines 69-71, 92: not running, no listener, no key down
LifecycleInit ==
    /\ running = FALSE
    /\ current_keys = {}
    /\ pynput_listener = None
    /\ spc = "out"
    /\ event = NoEvent

\* the test of _on_pynput_press as it would be if the letter alone sufficed
HotkeyDownLetter(keys) == "p" \in keys

\* _on_pynput_press lines 157-160: the four keys of the hotkey are all down
HotkeyDown(keys) == HotkeyKeys \subseteq keys

\* start() lines 265-281 when not running: running is set, the listener made
\* and started; an exception on the way (error) goes to the handlers of lines
\* 301-304 and on to the finally block
Start ==
    /\ spc = "out"
    /\ ~running
    /\ running' = TRUE
    /\ \E error \in BOOLEAN :
         IF error
         THEN spc' = "finally" /\ UNCHANGED pynput_listener
         ELSE spc' = "loop" /\ pynput_listener' = "alive"
    /\ event' = [op |-> "start", key |-> None, handler |-> FALSE,
                 n |-> 1 - event.n]
    /\ UNCHANGED current_keys
    /\ UNCHANGED <<serverVars, observedVars, clientVars, connectVars, listenerVars,
                   singletonVars>>

\* start() lines 265-267, called by another thread while running: it returns
StartRunning ==
    /\ running
    /\ event' = [op |-> "start while running", key |-> None, handler |-> FALSE,
                 n |-> 1 - event.n]
    /\ UNCHANGED <<running, current_keys, pynput_listener, spc>>
    /\ UNCHANGED <<serverVars, observedVars, clientVars, connectVars, listenerVars,
                   singletonVars>>

\* stop() lines 310-325 on the fields: nothing when not running; else running
\* is cleared and the listener, if there is one, stopped
stop_running(r) == FALSE
stop_listener(r, l) == IF r /\ l # None THEN "stopped" ELSE l

\* stop() called by another thread
Stop ==
    /\ running' = stop_running(running)
    /\ pynput_listener' = stop_listener(running, pynput_listener)
    /\ event' = [op |-> IF running THEN "stop" ELSE "stop while not running",
                 key |-> None, handler |-> FALSE,
                 n |-> 1 - event.n]
    /\ UNCHANGED <<current_keys, spc>>
    /\ UNCHANGED <<serverVars, observedVars, clientVars, connectVars, listenerVars,
                   singletonVars>>

\* start() line 285: the wait ends because running is False or the listener
\* is not alive, or an exception ends it (lines 301-304)
LoopExit ==
    /\ spc = "loop"
    /\ \E error \in BOOLEAN : error \/ ~running \/ pynput_listener # "alive"
    /\ spc' = "finally"
    /\ UNCHANGED <<running, current_keys, pynput_listener, event>>
    /\ UNCHANGED <<serverVars, observedVars, clientVars, connectVars, listenerVars,
                   singletonVars>>

\* start() lines 287-289: Ctrl+C during the wait, stop() in the handler
Interrupt ==
    /\ spc = "loop"
    /\ running' = stop_running(running)
    /\ pynput_listener' = stop_listener(running, pynput_listener)
    /\ spc' = "finally"
    /\ event' = [op |-> "KeyboardInterrupt", key |-> None, handler |-> FALSE,
                 n |-> 1 - event.n]
    /\ UNCHANGED current_keys
    /\ UNCHANGED <<serverVars, observedVars, clientVars, connectVars, listenerVars,
                   singletonVars>>

\* start() lines 305-306: finally: self.stop(), and start() returns
StartReturn ==
    /\ spc = "finally"
    /\ running' = stop_running(running)
    /\ pynput_listener' = stop_listener(running, pynput_listener)
    /\ spc' = "out"
    /\ event' = [op |-> "return", key |-> None, handler |-> FALSE,
                 n |-> 1 - event.n]
    /\ UNCHANGED current_keys
    /\ UNCHANGED <<serverVars, observedVars, clientVars, connectVars, listenerVars,
                   singletonVars>>

\* the listener thread ends by itself
ListenerDies ==
    /\ pynput_listener = "alive"
    /\ hpc[1] = "idle"
    /\ pynput_listener' = "stopped"
    /\ event' = [op |-> "death", key |-> None, handler |-> FALSE,
                 n |-> 1 - event.n]
    /\ UNCHANGED <<running, current_keys, spc>>
    /\ UNCHANGED <<serverVars, observedVars, clientVars, connectVars, listenerVars,
                   singletonVars>>

\* _on_pynput_press, lines 151-164, run by the listener thread: the key is
\* added; with the hotkey down _handle_hotkey is called, whose first statement
\* (lines 182-184) returns when a conversion is in flight
Press(k) ==
    /\ pynput_listener = "alive"
    /\ hpc[1] = "idle"
    /\ current_keys' = current_keys \cup {k}
    /\ event' = [op |-> "press", key |-> k, handler |-> HotkeyDown(current_keys'),
                 n |-> 1 - event.n]
    /\ hpc' = IF HotkeyDown(current_keys') /\ ~is_processing
              THEN [hpc EXCEPT ![1] = "checked"] ELSE hpc
    /\ UNCHANGED <<running, pynput_listener, spc>>
    /\ UNCHANGED <<max_retries, client, is_processing, last_text, wpc, wmodel,
                   attempt, err, nreq, nsel, outcome, prev_err, reported>>
    /\ UNCHANGED <<serverVars, observedVars, connectVars, listenerVars, singletonVars>>

\* _on_pynput_release, lines 166-177: the key is removed if it is there; Esc
\* while running returns False, which stops the listener
Release(k) ==
    /\ pynput_listener = "alive"
    /\ hpc[1] = "idle"
    /\ current_keys' = current_keys \ {k}
    /\ pynput_listener' = IF k = "esc" /\ running THEN "stopped" ELSE pynput_listener
    /\ event' = [op |-> "release", key |-> k, handler |-> FALSE,
                 n |-> 1 - event.n]
    /\ UNCHANGED <<running, spc>>
    /\ UNCHANGED <<serverVars, observedVars, clientVars, connectVars, listenerVars,
                   singletonVars>>

(***************************************************************************)
(* The workers of hotkey_tts.py and standalone_tts.py                      *)
(***************************************************************************)
\* hotkey_tts._convert_to_speech, lines 182-198: one text_to_speech call, any
\* exception logged
HotkeyConvert(w) ==
    /\ wpc[w] = "request"
    /\ nreq' = [nreq EXCEPT ![w] = @ + 1]
    /\ \E r \in RequestOutcomes :
         /\ err' = [err EXCEPT ![w] = IF r = "ok" THEN None ELSE r]
         /\ outcome' = [outcome EXCEPT ![w] = IF r = "ok" THEN "Succeeded" ELSE "Failed"]
    /\ wpc' = [wpc EXCEPT ![w] = "finally"]
    /\ UNCHANGED <<max_retries, client, is_processing, last_text, hpc, wmodel,
                   attempt, nsel, prev_err, reported>>
    /\ UNCHANGED <<serverVars, observedVars, connectVars, listenerVars, singletonVars, lifecycleVars>>

\* the engine object TTS(...) gives
Engine == "TTS"

\* where _initialize_tts may raise: nowhere, at import torch (line 87), at the
\* English engine (line 123), at the multilingual engine (line 127)
InitFailures == {None, "torch", "en_tts", "ml_tts"}

\* _initialize_tts, lines 81-138: both engines are loaded; any exception sets
\* both to None (lines 134-138)
_initialize_tts(failure) ==
    IF failure = None
    THEN [en_tts |-> Engine, ml_tts |-> Engine]
    ELSE [en_tts |-> None, ml_tts |-> None]

\* --model: absent, one of the two names the handler uses, another string
ModelArgs == {None, "english", "multilingual", "custom"}

\* standalone _handle_hotkey lines 233-242: self.model_name, or by the text
StandaloneModel(text) ==
    IF model_arg # None THEN model_arg
    ELSE IF text = "cjk" THEN "multilingual" ELSE "english"

\* standalone _handle_hotkey, lines 213-255, with what the clipboard held
\* recorded; the worker started counts its calls from zero
StandaloneHandle(h) ==
    /\ hpc[h] = "flagged"
    /\ \E paste \in Pastes, raises \in BOOLEAN :
         /\ clipboard' = paste
         /\ HandleText(h, _read_clipboard(paste), raises,
                       StandaloneModel(_read_clipboard(paste)))
    /\ engine_calls' = [w \in Workers |-> IF wpc'[w] # wpc[w] THEN 0 ELSE engine_calls[w]]
    /\ fallbacks' = [w \in Workers |-> IF wpc'[w] # wpc[w] THEN 0 ELSE fallbacks[w]]
    /\ UNCHANGED <<kind, model_arg, en_tts, ml_tts>>

\* _convert_to_speech lines 308-309: the engine of the model is None
Uninitialised(model) ==
    \/ model = "english" /\ en_tts = None
    \/ model = "multilingual" /\ ml_tts = None

\* _convert_to_speech lines 308-310: the check of the engine
StandaloneCheck(w) ==
    /\ wpc[w] = "request"
    /\ wpc' = [wpc EXCEPT ![w] = IF Uninitialised(wmodel[w])
                                 THEN "uninitialised" ELSE "engine"]
    /\ UNCHANGED <<max_retries, client, is_processing, last_text, hpc, wmodel,
                   attempt, err, nreq, nsel, outcome, prev_err, reported>>
    /\ UNCHANGED <<serverVars, observedVars, connectVars, listenerVars, singletonVars, lifecycleVars>>

\* _convert_to_speech lines 311-313: the system TTS speaks, the flag is
\* released, return
StandaloneUninitialised(w) ==
    /\ wpc[w] = "uninitialised"
    /\ fallbacks' = [fallbacks EXCEPT ![w] = @ + 1]
    /\ is_processing' = FALSE
    /\ outcome' = [outcome EXCEPT ![w] = "FellBack"]
    /\ wpc' = [wpc EXCEPT ![w] = "finally"]
    /\ UNCHANGED <<max_retries, client, last_text, hpc, wmodel, attempt, err, nreq,
                   nsel, prev_err, reported>>
    /\ UNCHANGED <<kind, clipboard, model_arg, en_tts, ml_tts, engine_calls>>
    /\ UNCHANGED <<serverVars, observedVars, connectVars, singletonVars, lifecycleVars>>

\* _convert_to_speech lines 316-337: the temporary file is made and the engine
\* of the model called, self.ml_tts for every model but "english"; the file or
\* the call may raise, and an engine that is None raises AttributeError
StandaloneEngine(w) ==
    /\ wpc[w] = "engine"
    /\ \E tempfile_raises \in BOOLEAN, engine_raises \in BOOLEAN :
         LET engine == IF wmodel[w] = "english" THEN en_tts ELSE ml_tts IN
         IF tempfile_raises
         THEN /\ err' = [err EXCEPT ![w] = "OSError"]
              /\ wpc' = [wpc EXCEPT ![w] = "except"]
              /\ UNCHANGED engine_calls
         ELSE IF engine = None
         THEN /\ err' = [err EXCEPT ![w] = "AttributeError"]
              /\ wpc' = [wpc EXCEPT ![w] = "except"]
              /\ UNCHANGED engine_calls
         ELSE /\ engine_calls' = [engine_calls EXCEPT ![w] = @ + 1]
              /\ err' = [err EXCEPT ![w] = IF engine_raises THEN "EngineError" ELSE None]
              /\ wpc' = [wpc EXCEPT ![w] = IF engine_raises THEN "except" ELSE "play"]
    /\ UNCHANGED <<max_retries, client, is_processing, last_text, hpc, wmodel,
                   attempt, nreq, nsel, outcome, prev_err, reported>>
    /\ UNCHANGED <<kind, clipboard, model_arg, en_tts, ml_tts, fallbacks>>
    /\ UNCHANGED <<serverVars, observedVars, connectVars, singletonVars, lifecycleVars>>

\* what follows the playback: _play_audio, lines 257-268, catches and logs
\* every exception of the player, so _convert_to_speech goes on to its end
AfterPlayback(failed) == "finally"

\* _convert_to_speech line 341: the audio is played
StandalonePlay(w) ==
    /\ wpc[w] = "play"
    /\ \E failed \in BOOLEAN :
         /\ outcome' = [outcome EXCEPT ![w] = IF failed THEN "PlaybackFailed" ELSE "Played"]
         /\ wpc' = [wpc EXCEPT ![w] = AfterPlayback(failed)]
    /\ UNCHANGED <<max_retries, client, is_processing, last_text, hpc, wmodel,
                   attempt, err, nreq, nsel, prev_err, reported>>
    /\ UNCHANGED <<serverVars, observedVars, connectVars, listenerVars, singletonVars, lifecycleVars>>

\* _convert_to_speech lines 345-348: the exception is logged and the system
\* TTS speaks; _fallback_tts, lines 270-300, catches what its player raises
StandaloneExcept(w) ==
    /\ wpc[w] = "except"
    /\ fallbacks' = [fallbacks EXCEPT ![w] = @ + 1]
    /\ outcome' = [outcome EXCEPT ![w] = IF @ = None THEN "FellBack" ELSE @]
    /\ wpc' = [wpc EXCEPT ![w] = "finally"]
    /\ UNCHANGED <<max_retries, client, is_processing, last_text, hpc, wmodel,
                   attempt, err, nreq, nsel, prev_err, reported>>
    /\ UNCHANGED <<kind, clipboard, model_arg, en_tts, ml_tts, engine_calls>>
    /\ UNCHANGED <<serverVars, observedVars, connectVars, singletonVars, lifecycleVars>>

(***************************************************************************)
(* debug_vpn_connection.py, and _connect_to_server run on its own          *)
(***************************************************************************)
\* PORT, debug_vpn_connection.py line 17
PORT == 8090
Ports == {PORT, PORT + 1}
UrlAt(host, port) == <<"http", host, port>>

\* names and addresses of the local host: an ordinary name and localhost; the
\* loopback address, the Debian loopback alias, a LAN address, the Docker bridge
Hostnames == {"myhost", "localhost"}
IPs == {"127.0.0.1", "127.0.1.1", "192.168.1.5", "172.17.0.1"}

\* the address lists gethostbyname_ex may give: no address twice
IpLists ==
    {l \in UNION {[1..n -> IPs] : n \in 0..MaxIps} :
        \A i, j \in 1..Len(l) : i # j => l[i] # l[j]}

\* what the resolver calls give: gethostbyname raises (ok = FALSE), or gives ip
\* and then gethostbyname_ex raises (ex_ok = FALSE) or gives all_ips
HostLookups ==
    {[ok |-> FALSE, ip |-> None, hostname |-> h, ex_ok |-> FALSE, all_ips |-> <<>>] :
        h \in Hostnames}
    \cup {[ok |-> TRUE, ip |-> a, hostname |-> h, ex_ok |-> FALSE, all_ips |-> <<>>] :
            a \in IPs, h \in Hostnames}
    \cup {[ok |-> TRUE, ip |-> a, hostname |-> h, ex_ok |-> TRUE, all_ips |-> l] :
            a \in IPs, h \in Hostnames, l \in IpLists}

\* get_connection_urls lines 67-70: every address of all_ips from the i-th on
\* that is not the loopback address and whose URL is not in the list yet
RECURSIVE AddAllIps(_, _, _, _)
AddAllIps(urls, all_ips, port, i) ==
    IF i > Len(all_ips) THEN urls
    ELSE AddAllIps(IF all_ips[i] # "127.0.0.1" /\ UrlAt(all_ips[i], port) \notin Range(urls)
                   THEN Append(urls, UrlAt(all_ips[i], port)) ELSE urls,
                   all_ips, port, i + 1)

\* get_connection_urls, debug_vpn_connection.py lines 46-77
get_connection_urls(port, lk) ==
    LET fixed == <<UrlAt("localhost", port), UrlAt("127.0.0.1", port),
                   UrlAt("0.0.0.0", port), UrlAt("[::1]", port)>>
        primary == fixed \o (IF lk.ok /\ lk.ip # "127.0.0.1"
                             THEN <<UrlAt(lk.ip, port), UrlAt(lk.hostname, port)>>
                             ELSE <<>>)
        resolved == IF lk.ok /\ lk.ex_ok
                    THEN AddAllIps(primary, lk.all_ips, port, 1) ELSE primary
    IN resolved \o <<UrlAt("172.17.0.1", port)>>

\* the assignments of a behaviour to each candidate of the list, at most
\* MaxHealthy of them accepting the connection
AnswerSets(urls) ==
    UNION {{[u \in Range(urls) |-> IF u \in h THEN f[u] ELSE "refused"] :
               f \in [h -> Behaviours \ {"refused"}]} :
           h \in HealthySets(urls)}

\* status_code of a result that got no response (None, line 110), and the
\* status the server answers by behaviour
NoStatus == 0
StatusOf(b) == IF b = "http_error" THEN 500 ELSE 200

\* test_http_connection as it would be if it went on to the HTTP request
\* whatever the socket test gave
test_http_connection_always(host, b) ==
    [socket_ok |-> host # "[::1]" /\ b # "refused",
     http_sent |-> TRUE,
     http_ok |-> b \in {"running", "not_running"},
     health_ok |-> b = "running",
     error |-> IF b = "refused" THEN "RequestException" ELSE None,
     status_code |-> IF b = "refused" THEN NoStatus ELSE StatusOf(b)]

\* test_http_connection, lines 101-153, of the /health URL of a candidate.
\* Lines 116-118: host.split(":") into two parts raises ValueError for the
\* bracketed IPv6 host, caught at line 150.  Lines 124-128: the socket test; if
\* it fails the result is returned with the socket error.  Lines 132-149: the
\* GET; http_ok on a 2xx status; health_ok when the body's status is "running"
test_http_connection(host, b) ==
    IF host = "[::1]"
    THEN [socket_ok |-> FALSE, http_sent |-> FALSE, http_ok |-> FALSE,
          health_ok |-> FALSE, error |-> "ValueError", status_code |-> NoStatus]
    ELSE IF b = "refused"
    THEN [socket_ok |-> FALSE, http_sent |-> FALSE, http_ok |-> FALSE,
          health_ok |-> FALSE, error |-> "SocketFailed", status_code |-> NoStatus]
    ELSE [socket_ok |-> TRUE, http_sent |-> TRUE,
          http_ok |-> b \in {"running", "not_running"},
          health_ok |-> b = "running", error |-> None,
          status_code |-> StatusOf(b)]

\* the loop of main as it would be if it collected the candidates whose HTTP
\* request succeeded
RECURSIVE DiagnoseLoopHttp(_, _, _, _, _)
DiagnoseLoopHttp(urls, answers, i, probes, successful_urls) ==
    IF i > Len(urls)
    THEN [probes |-> probes, successful_urls |-> successful_urls, ended |-> "return"]
    ELSE LET r == test_http_connection(urls[i][2], answers[urls[i]]) IN
         DiagnoseLoopHttp(urls, answers, i + 1, Append(probes, <<urls[i], r>>),
                          IF r.http_ok THEN Append(successful_urls, urls[i])
                          ELSE successful_urls)

\* main lines 185-206: every candidate is tested; the ones whose health check
\* passed are collected in order
RECURSIVE DiagnoseLoop(_, _, _, _, _)
DiagnoseLoop(urls, answers, i, probes, successful_urls) ==
    IF i > Len(urls)
    THEN [probes |-> probes, successful_urls |-> successful_urls, ended |-> "return"]
    ELSE LET r == test_http_connection(urls[i][2], answers[urls[i]]) IN
         DiagnoseLoop(urls, answers, i + 1, Append(probes, <<urls[i], r>>),
                      IF r.health_ok THEN Append(successful_urls, urls[i])
                      ELSE successful_urls)

\* main lines 169-175: the tool exits when the port is closed on localhost
\* (test_socket_connection, lines 79-99), before any candidate is tested
main(urls, answers) ==
    IF answers[UrlAt("localhost", PORT)] = "refused"
    THEN [probes |-> <<>>, successful_urls |-> <<>>, ended |-> "SystemExit"]
    ELSE DiagnoseLoop(urls, answers, 1, <<>>, <<>>)

\* get_connection_urls is called
GetConnectionUrls ==
    /\ cpc = "start"
    /\ \E port \in Ports, lk \in HostLookups :
         /\ env' = [port |-> port, lookup |-> lk]
         /\ candidates' = get_connection_urls(port, lk)
    /\ cpc' = "get_connection_urls"
    /\ UNCHANGED result
    /\ UNCHANGED <<serverVars, observedVars, clientVars, listenerVars, singletonVars, lifecycleVars>>

\* self.client as it would be if each candidate's client were assigned before
\* its probe
client_after_probed(old, sel) ==
    IF sel.probes = <<>> THEN old ELSE sel.probes[Len(sel.probes)][1]

\* self.client after the loop of _connect_to_server: line 129 assigns it inside
\* `if client.check_server_health()`, nothing else does
client_after(old, sel) == IF sel.ended = "return" THEN sel.client ELSE old

\* _connect_to_server is called: lines 122-141
Connect ==
    /\ cpc = "start"
    /\ \E lk \in HostLookups :
       \E answers \in AnswerSets(_get_potential_server_urls(lk)) :
         /\ env' = [lookup |-> lk, answers |-> answers]
         /\ candidates' = _get_potential_server_urls(lk)
         /\ result' = ConnectLoop(_get_potential_server_urls(lk), answers, 1, <<>>)
    /\ client' = client_after(client, result')
    /\ cpc' = "_connect_to_server"
    /\ UNCHANGED <<max_retries, is_processing, last_text, hpc, wpc, wmodel, attempt,
                   err, nreq, nsel, outcome, prev_err, reported>>
    /\ UNCHANGED <<serverVars, observedVars, listenerVars, singletonVars, lifecycleVars>>

\* the diagnostic tool is run: main, lines 155-233
Diagnose ==
    /\ cpc = "start"
    /\ \E lk \in HostLookups :
       \E answers \in AnswerSets(get_connection_urls(PORT, lk)) :
         /\ env' = [lookup |-> lk, answers |-> answers]
         /\ candidates' = get_connection_urls(PORT, lk)
         /\ result' = main(get_connection_urls(PORT, lk), answers)
    /\ cpc' = "main"
    /\ UNCHANGED <<serverVars, observedVars, clientVars, listenerVars, singletonVars, lifecycleVars>>

\* main line 338: --server-url is absent (NoServer) or names a server: one of the
\* candidates of the selection, a remote one, one written without a port
ServerUrls ==
    {NoServer, Url("127.0.0.1"), <<"http", "10.0.0.8", ServerPort>>,
     <<"http", "tts.local">>}

\* main lines 351-354: the port is parsed out of the URL; when that fails
\* args.port is taken, the default of line 336
server_port(server_url) == IF Len(server_url) < 3 THEN ServerPort ELSE server_url[3]

\* the URLs probed during start-up
Probed(server_url, urls) ==
    Range(urls) \cup (IF server_url = NoServer THEN {} ELSE {server_url})

\* main lines 348-388 of vpn_compatible_tts.py.  With --server-url the URL is
\* probed first and a failure exits (lines 360-368); the listener is
\* constructed, and its __init__ runs _connect_to_server over the candidates of
\* the port (line 81), which exits when none passes (line 141); only then is
\* the client replaced by the one of the URL (line 380)
vpn_main(server_url, urls, answers) ==
    LET found == ConnectLoop(urls, answers, 1, <<>>) IN
    IF server_url # NoServer /\ ~check_server_health(answers[server_url]).passed
    THEN [ended |-> "SystemExit", at |-> "main", client |-> NoServer]
    ELSE IF found.ended = "SystemExit"
    THEN [ended |-> "SystemExit", at |-> "_connect_to_server", client |-> NoServer]
    ELSE [ended |-> "start", at |-> "start",
          client |-> IF server_url # NoServer THEN server_url ELSE found.client]

\* the listener is started from the command line: main, lines 328-422
VpnMain ==
    /\ cpc = "start"
    /\ \E server_url \in ServerUrls, res \in Resolutions :
       \E healthy \in {h \in SUBSET Probed(server_url, _get_potential_server_urls(res)) :
                          Cardinality(h) <= MaxHealthy} :
         LET urls == _get_potential_server_urls(res)
             answers == [u \in Probed(server_url, urls) |->
                            IF u \in healthy THEN "running" ELSE "refused"]
             r == vpn_main(server_url, urls, answers)
         IN /\ server_url # NoServer => server_port(server_url) = ServerPort
            /\ env' = [server_url |-> server_url, answers |-> answers]
            /\ candidates' = urls
            /\ result' = r
            /\ client' = r.client
    /\ cpc' = "vpn_main"
    /\ UNCHANGED <<max_retries, is_processing, last_text, hpc, wpc, wmodel, attempt,
                   err, nreq, nsel, outcome, prev_err, reported>>
    /\ UNCHANGED <<serverVars, observedVars, listenerVars, singletonVars, lifecycleVars>>

\* main line 422: hotkey_listener.start() has been reached
Started == cpc = "vpn_main" /\ result.ended = "start"

ConnectNext ==
    \/ GetConnectionUrls
    \/ Connect
    \/ Diagnose

\* no run of the selection or of the diagnostic tool has begun
ConnectInit ==
    /\ cpc = "start"
    /\ env = <<>>
    /\ candidates = <<>>
    /\ result = <<>>

\* the VPN-compatible listener, no trigger yet
ListenerRest ==
    /\ kind = "vpn_compatible_tts"
    /\ clipboard = NoPaste
    /\ model_arg = None /\ en_tts = None /\ ml_tts = None
    /\ engine_calls = [w \in Workers |-> 0]
    /\ fallbacks = [w \in Workers |-> 0]

\* triggers delivered by several threads at once
HotkeyNext ==
    \/ \E h \in Handlers : HandlerCheck(h)
    \/ \E h \in Handlers : HandlerSetFlag(h)
    \/ \E h \in Handlers : HandlerBody(h)
    \/ \E w \in Workers : WorkerRequest(w)
    \/ \E w \in Workers : WorkerReconnect(w)
    \/ \E w \in Workers : WorkerSleep(w)
    \/ \E w \in Workers : WorkerFinally(w)

\* triggers delivered one after the other by the single listener thread
SerialNext ==
    \/ HandlerCheck(1)
    \/ HandlerSetFlag(1)
    \/ HandlerBody(1)
    \/ \E w \in Workers : WorkerRequest(w)
    \/ \E w \in Workers : WorkerReconnect(w)
    \/ \E w \in Workers : WorkerSleep(w)
    \/ \E w \in Workers : WorkerFinally(w)

\* the listener started by main: triggers act once start() has been reached
PinnedNext ==
    \/ VpnMain
    \/ Started /\ SerialNext

\* the process before main: no listener constructed, self.client None (line 80)
InitPinned ==
    /\ ServerInit /\ ListenerInit /\ ConnectInit /\ ListenerRest /\ SingletonInit /\ LifecycleInit
    /\ max_retries = DefaultMaxRetries /\ client = NoServer

\* the standalone listener: triggers of one listener thread and its workers
StandaloneNext ==
    \/ HandlerCheck(1)
    \/ HandlerSetFlag(1)
    \/ StandaloneHandle(1)
    \/ \E w \in Workers : StandaloneCheck(w)
    \/ \E w \in Workers : StandaloneUninitialised(w)
    \/ \E w \in Workers : StandaloneEngine(w)
    \/ \E w \in Workers : StandalonePlay(w)
    \/ \E w \in Workers : StandaloneExcept(w)
    \/ \E w \in Workers : WorkerFinally(w)

\* the standalone listener after __init__, lines 56-79: the engines as
\* _initialize_tts left them
InitStandalone ==
    /\ ServerInit /\ ClientInit /\ ConnectInit /\ SingletonInit /\ LifecycleInit
    /\ max_retries = DefaultMaxRetries /\ client = Url("localhost")
    /\ kind = "standalone_tts"
    /\ clipboard = NoPaste
    /\ model_arg \in ModelArgs
    /\ \E failure \in InitFailures :
         /\ en_tts = _initialize_tts(failure).en_tts
         /\ ml_tts = _initialize_tts(failure).ml_tts
    /\ engine_calls = [w \in Workers |-> 0]
    /\ fallbacks = [w \in Workers |-> 0]

\* the listener started and stopped, its key callbacks, and the handler and
\* worker the hotkey sets off
LifecycleNext ==
    \/ Start
    \/ StartRunning
    \/ Stop
    \/ LoopExit
    \/ Interrupt
    \/ StartReturn
    \/ ListenerDies
    \/ \E k \in Keys : Press(k)
    \/ \E k \in Keys : Release(k)
    \/ HandlerSetFlag(1)
    \/ HandlerBody(1)
    \/ \E w \in Workers : WorkerRequest(w)
    \/ \E w \in Workers : WorkerFinally(w)

\* a listener constructed with --max-retries 1: a send is one request
InitLifecycle ==
    /\ ServerInit /\ ClientInit /\ ConnectInit /\ ListenerRest /\ SingletonInit /\ LifecycleInit
    /\ max_retries = 1 /\ client = Url("localhost")

\* one of the three listeners, by kind: the handler is the same code in each,
\* the worker is the one of the program
LiveHandle == kind # "standalone_tts" /\ HandlerRead(1)
LiveStandaloneHandle == kind = "standalone_tts" /\ StandaloneHandle(1)
LiveHotkeyConvert(w) == kind = "hotkey_tts" /\ HotkeyConvert(w)
LiveWorkerRequest(w) == kind = "vpn_compatible_tts" /\ WorkerRequest(w)
LiveStandaloneCheck(w) == kind = "standalone_tts" /\ StandaloneCheck(w)

LiveNext ==
    \/ HandlerCheck(1)
    \/ HandlerSetFlag(1)
    \/ LiveHandle
    \/ LiveStandaloneHandle
    \/ \E w \in Workers : LiveHotkeyConvert(w)
    \/ \E w \in Workers : LiveWorkerRequest(w)
    \/ \E w \in Workers : WorkerReconnect(w)
    \/ \E w \in Workers : WorkerSleep(w)
    \/ \E w \in Workers : LiveStandaloneCheck(w)
    \/ \E w \in Workers : StandaloneUninitialised(w)
    \/ \E w \in Workers : StandaloneEngine(w)
    \/ \E w \in Workers : StandalonePlay(w)
    \/ \E w \in Workers : StandaloneExcept(w)
    \/ \E w \in Workers : WorkerFinally(w)

\* any of the three listeners after its __init__
InitLive ==
    /\ ServerInit /\ ClientInit /\ ConnectInit /\ SingletonInit /\ LifecycleInit
    /\ client = Url("localhost")
    /\ kind \in Kinds
    /\ clipboard = NoPaste
    /\ IF kind = "standalone_tts"
       THEN /\ max_retries = DefaultMaxRetries
            /\ model_arg \in ModelArgs
            /\ \E failure \in InitFailures :
                 /\ en_tts = _initialize_tts(failure).en_tts
                 /\ ml_tts = _initialize_tts(failure).ml_tts
       ELSE /\ kind = "hotkey_tts" => max_retries = DefaultMaxRetries
            /\ model_arg = None /\ en_tts = None /\ ml_tts = None
    /\ engine_calls = [w \in Workers |-> 0]
    /\ fallbacks = [w \in Workers |-> 0]

\* a handler that has been called runs to its return, and a worker thread that
\* has been started runs to its end: every clipboard read, request (timeout of
\* 60 s, tts_client.py line 94), health check (timeout of 5 s, line 34), sleep,
\* engine call and player call returns or raises.  When the user presses the
\* hotkey is not constrained
LiveFairness ==
    /\ WF_vars(HandlerSetFlag(1))
    /\ WF_vars(LiveHandle)
    /\ WF_vars(LiveStandaloneHandle)
    /\ \A w \in Workers :
         /\ WF_vars(LiveHotkeyConvert(w))
         /\ WF_vars(LiveWorkerRequest(w))
         /\ WF_vars(WorkerReconnect(w))
         /\ WF_vars(WorkerSleep(w))
         /\ WF_vars(LiveStandaloneCheck(w))
         /\ WF_vars(StandaloneUninitialised(w))
         /\ WF_vars(StandaloneEngine(w))
         /\ WF_vars(StandalonePlay(w))
         /\ WF_vars(StandaloneExcept(w))
         /\ WF_vars(WorkerFinally(w))

\* triggers of one listener thread, with the clipboard of each in view
ClipboardNext ==
    \/ HandlerCheck(1)
    \/ HandlerSetFlag(1)
    \/ HandlerRead(1)
    \/ \E w \in Workers : WorkerRequest(w)
    \/ \E w \in Workers : WorkerReconnect(w)
    \/ \E w \in Workers : WorkerSleep(w)
    \/ \E w \in Workers : WorkerFinally(w)

\* the server process, with no listener acting
InitServer ==
    /\ ServerInit /\ ClientInit /\ ConnectInit /\ ListenerRest /\ SingletonInit /\ LifecycleInit
    /\ max_retries = DefaultMaxRetries /\ client = Url("localhost")

\* a listener constructed with the default max_retries (line 54)
InitHotkey ==
    /\ ServerInit /\ ClientInit /\ ConnectInit /\ ListenerRest /\ SingletonInit /\ LifecycleInit
    /\ max_retries = DefaultMaxRetries

\* a listener constructed with any max_retries
Init == ServerInit /\ ClientInit /\ ConnectInit /\ ListenerRest /\ SingletonInit /\ LifecycleInit

SpecServer == InitServer /\ [][ServerNext]_vars
SpecHotkey == InitHotkey /\ [][HotkeyNext]_vars
SpecSerial == Init /\ [][SerialNext]_vars
SpecConnect == InitServer /\ [][ConnectNext]_vars
SpecDispatch == InitServer /\ [][DispatchNext]_vars
SpecInventory == InitServer /\ [][InventoryNext]_vars
SpecPinned == InitPinned /\ [][PinnedNext]_vars
SpecClipboard == InitHotkey /\ [][ClipboardNext]_vars
SpecStandalone == InitStandalone /\ [][StandaloneNext]_vars
SpecSingleton == InitServer /\ [][SingletonNext]_vars
SpecLifecycle == InitLifecycle /\ [][LifecycleNext]_vars
SpecLive == InitLive /\ [][LiveNext]_vars /\ LiveFairness

(***************************************************************************)
(* Properties of the model cache (tts_server.py)                           *)
(***************************************************************************)
\* C1: for every model key at most one load (TTS(model_name=k)) is in flight
\* at any time, whatever the number of threads that call get_model(k).
C1_OneLoadInFlight ==
    \A k \in ModelNames : Cardinality(Loading(k)) <= 1

\* the outcome of get_model a thread holds: the instance, or the load failure
HasOutcome(u) == tts[u] # 0 \/ exc[u] = "LoadFailed"
Outcome(u) == IF exc[u] = "LoadFailed" THEN -1 ELSE tts[u]

\* C2: callers of get_model(k) whose loads of the uncached k overlapped all
\* observe the same outcome: when one of them gets its instance, or its load
\* failure, every other that already holds its outcome holds the same one.
C2_SameOutcome ==
    [][\A t \in AllThreads : \A u \in overlap[t] :
          (HasOutcome(u) /\ ~HasOutcome(t) /\ HasOutcome(t)')
              => Outcome(t)' = Outcome(u)]_vars

\* C3: over manager construction, preloading and any /tts requests, each
\* model identifier is successfully constructed at most once.
C3_LoadedAtMostOnce ==
    \A k \in ModelNames : loads[k] <= 1

\* C4: a load that fails leaves the cache as it was and raises to the caller
\* (a request answers 500, nothing is synthesised); nothing negative is
\* remembered: a lookup of a key that is not cached always goes to a load.
C4_FailedLoadStep(t) ==
    (pc[t] = "loading" /\ pc'[t] = "raised")
        => (models' = models /\ exc'[t] = "LoadFailed")
C4_Propagated(t) ==
    (pc[t] = "raised" /\ pc'[t] # "raised")
        => /\ t \in Threads => (pc'[t] = "idle" /\ resp'[t] = 500)
           /\ t = MainThread => pc'[t] = "serving"
C4_FreshAttempt(t) ==
    (pc[t] = "get_model" /\ pc'[t] # "get_model" /\ model_name[t] \notin DOMAIN models)
        => pc'[t] = "loading"
C4_FailureLeavesCache ==
    [][\A t \in AllThreads :
          C4_FailedLoadStep(t) /\ C4_Propagated(t) /\ C4_FreshAttempt(t)]_vars

\* a load of k has failed and its exception is on its way up; another thread,
\* whose lookup came after that failure, is loading k afresh
C4_Witness ==
    \E t, u \in AllThreads :
        /\ pc[t] = "raised" /\ exc[t] = "LoadFailed"
        /\ pc[u] = "loading" /\ model_name[u] = model_name[t] /\ t \notin overlap[u]
        /\ ENABLED LoadOk(u)

\* C5: while a load of one key is in flight, get_model of another, cached key
\* is not blocked: its test and its return can each be taken at once.
C5_CachedReadNotBlocked ==
    \A t \in Threads :
        (model_name[t] \in DOMAIN models /\ OtherLoads(t) # {})
            => /\ pc[t] = "get_model" => ENABLED GetModelCheck(t)
               /\ pc[t] = "return" => ENABLED GetModelReturn(t)

\* a thread holds the cached engine it looked up while another key's load,
\* in flight at the lookup, is still in flight
C5_Witness ==
    \E t \in Threads :
        pc[t] = "got" /\ busy[t] /\ tts[t] # 0 /\ OtherLoads(t) # {}

\* C6: no two request threads are inside tts_to_file of the same engine
\* instance at the same time.
C6_SynthesisExclusive ==
    \A t, u \in Threads :
        (t # u /\ pc[t] = "tts_to_file" /\ pc[u] = "tts_to_file")
            => ~(model_name[t] = model_name[u] /\ tts[t] = tts[u])

(***************************************************************************)
(* Properties of the hotkey listener and its send (vpn_compatible_tts.py)  *)
(***************************************************************************)
\* worker threads that have been started and have not ended
InFlight == {w \in Workers : wpc[w] # "free"}

\* C7: at most one conversion worker is in flight at any time, whatever the
\* interleaving of the triggers.
C7_OneWorkerInFlight == Cardinality(InFlight) <= 1

\* C8: a send issues at most max_retries requests and ends either Succeeded or
\* Failed.
C8_BoundedAndTerminal ==
    \A w \in Workers :
        /\ nreq[w] <= max_retries
        /\ wpc[w] = "finally" => outcome[w] \in {"Succeeded", "Failed"}

\* a send with max_retries = 3 whose first two requests failed and whose third
\* succeeded
FailedTwiceThenSucceeded(w) ==
    /\ max_retries = 3
    /\ wpc[w] = "finally" /\ outcome[w] = "Succeeded"
    /\ nreq[w] = 3 /\ attempt[w] = 2

C10_BadRequestNotRetried ==
    \A w \in Workers :
        err[w] = "BadRequest" => (wpc[w] = "finally" /\ outcome[w] = "Failed")

\* attempts a send has consumed: its synthesis requests, and the selection that
\* found no server if it ended on one
Consumed(w) == nreq[w] + (IF outcome[w] = "SystemExit" THEN 1 ELSE 0)

\* C11: a selection that finds no server counts as one attempt and the send
\* goes on: a send that has ended without success has consumed max_retries
\* attempts and has ended Failed.
C11_FailedSelectionOneAttempt ==
    \A w \in Workers :
        (wpc[w] = "finally" /\ outcome[w] # "Succeeded")
            => (outcome[w] = "Failed" /\ Consumed(w) = max_retries)

\* C12: a send that ends Failed after its attempts are exhausted reports the
\* exception of its last request, not an earlier one, with the number of the
\* attempt, which is max_retries.
C12_LastErrorReported ==
    \A w \in Workers :
        outcome[w] = "Failed"
            => /\ reported[w].error = err[w]
               /\ reported[w].count = nreq[w]
               /\ reported[w].count = max_retries

\* a send has ended Failed whose last request raised another exception than
\* the request before it
C12_Witness ==
    \E w \in Workers :
        /\ outcome[w] = "Failed" /\ wpc[w] = "finally"
        /\ prev_err[w] # None /\ prev_err[w] # err[w]

(***************************************************************************)
(* Properties of connection selection, the probe and the candidate lists   *)
(***************************************************************************)
\* positions of the candidates whose check_server_health passes
PassingHealth == {i \in 1..Len(candidates) :
                    check_server_health(env.answers[candidates[i]]).passed}

\* positions of the candidates whose test_http_connection gives health_ok
PassingDiagnosis == {i \in 1..Len(candidates) :
                       test_http_connection(candidates[i][2],
                                            env.answers[candidates[i]]).health_ok}

Least(S) == CHOOSE i \in S : \A j \in S : i <= j

\* C13: _connect_to_server selects the passing candidate of least position,
\* whatever passes after it, and has probed the candidates up to that one and
\* no other; the diagnostic tool puts the passing candidate of least position
\* first in its list.
C13_FirstPassingSelected ==
    /\ (cpc = "_connect_to_server" /\ PassingHealth # {})
          => /\ result.client = candidates[Least(PassingHealth)]
             /\ Len(result.probes) = Least(PassingHealth)
             /\ \A i \in 1..Len(result.probes) : result.probes[i][1] = candidates[i]
    /\ (cpc = "main" /\ result.ended = "return" /\ PassingDiagnosis # {})
          => result.successful_urls[1] = candidates[Least(PassingDiagnosis)]

\* two candidates pass and _connect_to_server has selected the first of them,
\* which is not the first of the list
C13_Witness ==
    /\ cpc = "_connect_to_server"
    /\ Cardinality(PassingHealth) >= 2
    /\ Least(PassingHealth) > 1
    /\ result.client = candidates[Least(PassingHealth)]

\* C14: when every candidate fails its probe, _connect_to_server returns to its
\* caller, with every candidate probed and each one's failure reason.
C14_FailureValueReturned ==
    (cpc = "_connect_to_server" /\ PassingHealth = {})
        => /\ result.ended = "return"
           /\ Len(result.probes) = Len(candidates)
           /\ \A i \in 1..Len(candidates) :
                 /\ result.probes[i][1] = candidates[i]
                 /\ result.probes[i][2].reason # None

\* the first four candidates, in their fixed order
FixedPrefix(port) ==
    <<UrlAt("localhost", port), UrlAt("127.0.0.1", port),
      UrlAt("0.0.0.0", port), UrlAt("[::1]", port)>>

\* the order of the claim: the four fixed names; then, when the host resolves
\* to another address than the loopback one, that address and the hostname;
\* then addresses of the host; last the bridge address; nothing else, and when
\* the resolution fails only the fixed entries
WellOrdered(urls, port, lk) ==
    /\ Len(urls) >= 5
    /\ SubSeq(urls, 1, 4) = FixedPrefix(port)
    /\ urls[Len(urls)] = UrlAt("172.17.0.1", port)
    /\ ~lk.ok => Len(urls) = 5
    /\ (lk.ok /\ lk.ip # "127.0.0.1")
          => (Len(urls) >= 7 /\ urls[5] = UrlAt(lk.ip, port)
                             /\ urls[6] = UrlAt(lk.hostname, port))
    /\ \A i \in 5..(Len(urls) - 1) :
          \/ (lk.ok /\ lk.ip # "127.0.0.1" /\ i \in {5, 6})
          \/ (lk.ok /\ lk.ex_ok
                /\ \E j \in 1..Len(lk.all_ips) : urls[i] = UrlAt(lk.all_ips[j], port))

\* C15: the candidate list of either generator has the order of the claim, for
\* every port and every outcome of the resolution.
C15_CandidateOrder ==
    /\ cpc = "get_connection_urls" => WellOrdered(candidates, env.port, env.lookup)
    /\ cpc = "main" => WellOrdered(candidates, PORT, env.lookup)
    /\ cpc = "_connect_to_server" => WellOrdered(candidates, ServerPort, env.lookup)

\* the part of C15 about get_connection_urls alone
DebugCandidateOrder ==
    /\ cpc = "get_connection_urls" => WellOrdered(candidates, env.port, env.lookup)
    /\ cpc = "main" => WellOrdered(candidates, PORT, env.lookup)

\* C16: no candidate list holds an address twice.
C16_NoDuplicates ==
    cpc # "start"
        => \A i, j \in 1..Len(candidates) : i # j => candidates[i] # candidates[j]

\* C17: the probe is ordered: a liveness request goes out only after the
\* connection was made; a candidate that refuses the connection gets no
\* liveness request and is reported with the transport failure, by
\* test_http_connection and by check_server_health alike.
C17_TransportBeforeLiveness ==
    /\ cpc = "main"
          => \A i \in 1..Len(result.probes) :
               LET u == result.probes[i][1]
                   r == result.probes[i][2] IN
               /\ r.http_sent => r.socket_ok
               /\ ~r.socket_ok => (~r.http_ok /\ ~r.health_ok /\ r.error # None)
               /\ (env.answers[u] = "refused" /\ u[2] # "[::1]")
                     => (~r.http_sent /\ r.error = "SocketFailed")
    /\ cpc = "_connect_to_server"
          => \A i \in 1..Len(result.probes) :
               LET u == result.probes[i][1]
                   p == result.probes[i][2] IN
               env.answers[u] = "refused"
                   => (~p.sent /\ ~p.passed /\ p.reason = "ConnectionError")

\* the diagnostic tool has tested a candidate that refused the connection and
\* one that accepted it and was sent the liveness request
C17_Witness ==
    /\ cpc = "main"
    /\ \E i, j \in 1..Len(result.probes) :
          /\ env.answers[result.probes[i][1]] = "refused"
          /\ result.probes[i][1][2] # "[::1]"
          /\ result.probes[j][2].socket_ok /\ result.probes[j][2].http_sent

\* C18: a candidate whose /health answers 200 with a body that does not say
\* status "running" is never selected by _connect_to_server and never listed
\* as successful by the diagnostic tool.
C18_NotRunningNeverSelected ==
    /\ (cpc = "_connect_to_server" /\ result.client # NoServer)
          => env.answers[result.client] # "not_running"
    /\ cpc = "main"
          => \A i \in 1..Len(result.successful_urls) :
               env.answers[result.successful_urls[i]] # "not_running"

\* the part of C18 about the diagnostic tool alone
DebugNotRunningNeverListed ==
    cpc = "main"
        => \A i \in 1..Len(result.successful_urls) :
             env.answers[result.successful_urls[i]] # "not_running"

(***************************************************************************)
(* Properties of the /tts dispatch (tts_server.py)                         *)
(***************************************************************************)
\* the thread is serving a request that came with a text
Serving(t) == req[t] # NoRequest /\ req[t].has_text /\ pc[t] # "idle"

\* C19: a request that names no model is served with the XTTS model when its
\* text has a CJK character and with the default model when its text is ASCII
\* and not blank, whatever its language field.
C19_InferredModel ==
    \A t \in Threads :
        (Serving(t) /\ req[t].model_name = None)
            => /\ req[t].text = "cjk" => model_name[t] = XttsModel
               /\ req[t].text = "ascii" => model_name[t] = DefaultModel

\* the part of C19 about requests that give no language
InferredModelNoLanguage ==
    \A t \in Threads :
        (Serving(t) /\ req[t].model_name = None /\ req[t].language = None)
            => /\ req[t].text = "cjk" => model_name[t] = XttsModel
               /\ req[t].text = "ascii" => model_name[t] = DefaultModel

\* C20: a request whose text is empty or whitespace only is answered 400 and
\* goes no further: no cache lookup, no load, no synthesis.
C20_BlankTextRejected ==
    \A t \in Threads :
        (req[t] # NoRequest /\ req[t].has_text /\ req[t].text \in {"", " "})
            => (pc[t] = "idle" /\ resp[t] = 400)

\* the step ends a request of t: the handler returns
Ends(t) ==
    \/ pc[t] # "idle" /\ pc'[t] = "idle"
    \/ /\ pc[t] = "idle" /\ pc'[t] = "idle"
       /\ <<req[t], resp[t]>>' # <<req[t], resp[t]>>

C22_CacheOnlyGrows ==
    [][\A k \in DOMAIN models :
          k \in DOMAIN models' /\ models'[k] = models[k]]_vars

\* the part of C22 about eviction: a key that is cached stays cached
CachedKeysStay ==
    [][\A k \in DOMAIN models : k \in DOMAIN models']_vars

\* thread 1 is inside tts_to_file: call holds the invocation of its request
Invoked == pc[1] = "tts_to_file" /\ call # NoCall

C24_OnlyApplicableParameters ==
    Invoked
        => /\ call.params.language # None => call.attrs.is_multi_lingual
           /\ call.params.speaker # None => call.attrs.is_multi_speaker
           /\ call.params.speaker_wav # None => call.model = XttsModel

\* the part of C24 about the speaker and the reference audio
SpeakerParametersApplicable ==
    Invoked
        => /\ call.params.speaker # None => call.attrs.is_multi_speaker
           /\ call.params.speaker_wav # None => call.model = XttsModel

\* the part of C24 about requests that give no language
InferredLanguageApplicable ==
    (Invoked /\ req[1].language = None)
        => (call.params.language # None => call.attrs.is_multi_lingual)

\* the engine's speaker list is there and not empty
HasSpeakers == call.attrs.is_multi_speaker /\ call.attrs.speakers # <<>>

\* C25: a multi-speaker engine with a non-empty speaker list gets its first
\* speaker and no reference audio; any other engine of the voice-cloning
\* family (xtts_v2) gets the reference audio whenever there is one, whether it
\* reports itself multi-speaker or not; never a speaker and a reference audio
\* together.
C25_SpeakerChoice ==
    Invoked
        => /\ HasSpeakers
                => /\ call.params.speaker = call.attrs.speakers[1]
                   /\ call.params.speaker_wav = None
           /\ (~HasSpeakers /\ call.model = XttsModel /\ reference_audio # None)
                => call.params.speaker_wav = reference_audio
           /\ ~(call.params.speaker # None /\ call.params.speaker_wav # None)

\* C25 for the engines that report themselves multi-speaker
SpeakerChoiceMultiSpeaker ==
    (Invoked /\ call.attrs.is_multi_speaker) => C25_SpeakerChoice

\* the parts of C25 about the first speaker and about never passing both
FirstSpeakerNeverBoth ==
    Invoked
        => /\ HasSpeakers
                => /\ call.params.speaker = call.attrs.speakers[1]
                   /\ call.params.speaker_wav = None
           /\ ~(call.params.speaker # None /\ call.params.speaker_wav # None)

(***************************************************************************)
(* Properties of the reference audio, the inventory and the startup        *)
(***************************************************************************)
\* C26: the reference audio is established once, by the construction of the
\* manager at module import, and never changes afterwards: over every later
\* step (a lookup, a load, a synthesis, a /tts or /models request, a further
\* construction of the manager) reference_audio keeps its value and
\* ensure_reference_audio is not run again.
C26_ReferenceAudioFixed ==
    [][pc[MainThread] # "construct"
          => (reference_audio' = reference_audio /\ creation' = creation)]_vars

\* the manager was left without a reference audio and has been constructed
\* twice more since; a /tts request has been answered with audio and a /models
\* request has been answered
C26_Witness ==
    /\ constructions >= 2
    /\ reference_audio = None /\ creation # NotCreated
    /\ resp[1] = 200
    /\ inventory # NoInventory

\* the steps ensure_reference_audio attempted, without their outcomes
Attempted == [i \in 1..Len(creation.steps) |-> creation.steps[i][1]]

\* C27: a reference audio that cannot be had is not fatal.
\* ensure_reference_audio attempts nothing when the file exists, attempts the
\* synthesis only after a download that failed, and returns None when both
\* failed; the manager is initialised whatever it returned; a request that has
\* its engine always goes on to the synthesis, and with no reference audio the
\* XTTS engine is invoked without a cloning reference.
C27_MissingReferenceNotFatal ==
    /\ creation # NotCreated
          => /\ pc[MainThread] # "construct"
             /\ creation.exists
                   => (creation.steps = <<>> /\ reference_audio = ReferencePath)
             /\ ~creation.exists
                   => \/ /\ creation.steps = << <<"download", TRUE>> >>
                         /\ reference_audio = ReferencePath
                      \/ /\ Attempted = <<"download", "synthesis">>
                         /\ ~creation.steps[1][2]
                         /\ reference_audio =
                               (IF creation.steps[2][2] THEN ReferencePath ELSE None)
    /\ pc[1] = "got" => ENABLED Prepare(1)
    /\ (Invoked /\ call.model = XttsModel /\ reference_audio = None)
          => call.params.speaker_wav = None

\* the download and the synthesis of the reference audio both failed, and a
\* request is inside the XTTS engine, which reports itself multi-speaker with
\* no speaker names, without a cloning reference
C27_Witness ==
    /\ creation # NotCreated
    /\ creation.steps = << <<"download", FALSE>>, <<"synthesis", FALSE>> >>
    /\ reference_audio = None
    /\ Invoked /\ call.model = XttsModel
    /\ call.attrs.is_multi_speaker /\ call.attrs.speakers = <<>>
    /\ call.params.speaker_wav = None

\* C28: a /models response lists as loaded_models exactly the keys whose load
\* by get_model had succeeded when it was given (none whose load had failed
\* or was in flight only), with the reference audio of the manager, None if
\* there is none.
C28_InventoryExact ==
    inventory # NoInventory
        => /\ inventory.status = 200
           /\ inventory.loaded_models = {k \in ModelNames : inventory.at[k] > 0}
           /\ inventory.reference_audio = reference_audio

\* a /models response was given while a load was in flight, after another key
\* had been loaded: it lists that other key and not the one in flight
C28_Witness ==
    /\ inventory # NoInventory
    /\ \E k \in inventory.loading : k \notin inventory.loaded_models
    /\ inventory.loaded_models # {}

\* the step with which the main thread starts to serve (app.run, line 266)
StartsServing == pc[MainThread] # "serving" /\ pc'[MainThread] = "serving"

\* the parts of C29 that are not about the skip flag being set: without the
\* flag the default model and then the XTTS model are loaded before serving,
\* and a preload that raised goes on to serving
PreloadInOrder ==
    /\ (StartsServing /\ ~skip_preload' /\ pc[MainThread] # "raised")
          => (DOMAIN models' = ModelNames
                /\ \A k \in ModelNames : CacheLoads(k)' = 1)
    /\ (pc[MainThread] = "loading" /\ model_name[MainThread] = XttsModel)
          => DefaultModel \in DOMAIN models
    /\ (pc[MainThread] = "raised" /\ pc'[MainThread] # "raised") => StartsServing

\* C29: with the skip flag set no model has been loaded when the server starts
\* to serve and the cache is empty then; without it the default and the XTTS
\* model are loaded, in that order, before serving; a preload that fails does
\* not keep the server from serving.
C29_StartupPreload ==
    [][/\ (StartsServing /\ skip_preload')
             => (models' = <<>> /\ \A k \in ModelNames : loads'[k] = 0)
       /\ PreloadInOrder]_vars

\* C29 with the loads counted that get_model made: the engine that
\* ensure_reference_audio constructs for itself is left out
StartupPreloadOfCache ==
    [][/\ (StartsServing /\ skip_preload')
             => (models' = <<>> /\ \A k \in ModelNames : CacheLoads(k)' = 0)
       /\ PreloadInOrder]_vars

\* C30: a request that names a model is served with that model, whatever its
\* text and its language: the name looked up in the cache and the name of the
\* engine invoked are the request's model_name.
C30_NamedModelKept ==
    \A t \in Threads :
        (Serving(t) /\ req[t].model_name # None)
            => /\ model_name[t] = req[t].model_name
               /\ (t = 1 /\ Invoked) => call.model = req[t].model_name

\* the part of C30 about requests that give a language or have no CJK character
NamedModelKeptNoSwitch ==
    \A t \in Threads :
        (Serving(t) /\ req[t].model_name # None
           /\ (req[t].language # None \/ req[t].text # "cjk"))
            => /\ model_name[t] = req[t].model_name
               /\ (t = 1 /\ Invoked) => call.model = req[t].model_name

(***************************************************************************)
(* Claims C31..C39.                                                        *)
(***************************************************************************)

\* C31: within one send the events are ordered request fails -> reconnect ->
\* pause -> next request.  A reconnect starts only out of a request that failed
\* on an attempt that is not the last allowed one; a pause starts only out of a
\* reconnect, which was one more selector run; a request that is not the first
\* of its send starts only out of a pause, so that before request number i the
\* send has made exactly i reconnects; and after the final failed attempt or a
\* successful one (the worker in its finally block) nothing but the end of
\* the worker follows.
C31_EventOrder ==
    [][\A w \in Workers :
         /\ (wpc'[w] = "reconnect" /\ wpc[w] # "reconnect") =>
               /\ wpc[w] = "request"
               /\ nreq'[w] = nreq[w] + 1
               /\ err'[w] \in RequestOutcomes \ {"ok"}
               /\ attempt[w] < max_retries - 1
         /\ (wpc'[w] = "sleep" /\ wpc[w] # "sleep") =>
               /\ wpc[w] = "reconnect"
               /\ nsel'[w] = nsel[w] + 1
         /\ (wpc'[w] = "request" /\ wpc[w] # "request") =>
               \/ wpc[w] = "free" /\ attempt'[w] = 0
               \/ wpc[w] = "sleep" /\ attempt'[w] = attempt[w] + 1
         /\ nreq'[w] = nreq[w] + 1 =>
               /\ wpc[w] = "request"
               /\ nsel[w] = nreq[w]
               /\ attempt[w] = nreq[w]
               /\ (wpc'[w] = "finally") =
                     (err'[w] = None \/ attempt[w] = max_retries - 1)
         /\ wpc[w] = "finally" => wpc'[w] \in {"finally", "free"}]_vars

\* a third request about to be issued after two reconnects and two pauses
C31_Witness ==
    \E w \in Workers :
        wpc[w] = "request" /\ attempt[w] = 2 /\ nsel[w] = 2 /\ nreq[w] = 2

\* C32: when --server-url names an endpoint that is healthy, start-up succeeds
\* whatever the candidates of the port answer, and the first request of every
\* send goes to that endpoint.
C32_PinnedEndpoint ==
    (/\ cpc = "vpn_main"
     /\ env.server_url # NoServer
     /\ env.answers[env.server_url] = "running")
    => /\ result.ended = "start"
       /\ \A w \in Workers :
            wpc[w] = "request" /\ attempt[w] = 0 => client = env.server_url

\* C32, start-up alone: a healthy endpoint named by --server-url lets
\* start-up succeed whatever the candidates of the port answer
PinnedStartupSucceeds ==
    (/\ cpc = "vpn_main"
     /\ env.server_url # NoServer
     /\ env.answers[env.server_url] = "running")
    => result.ended = "start"

\* C32, when start-up has succeeded: the first request of the first send goes
\* to the endpoint named by --server-url
PinnedFirstSend ==
    (Started /\ env.server_url # NoServer) =>
        \A w \in Workers :
            wpc[w] = "request" /\ attempt[w] = 0 /\ last_text = "" =>
                client = env.server_url

\* C34: a trigger that finds the clipboard empty, or blank before stripping,
\* sends no request and starts no worker, leaves last_text and the selected
\* client as they were, and leaves is_processing False when the handler
\* returns.
C34_EmptyClipboardNoEffect ==
    [][\A h \in Handlers :
         (/\ hpc[h] = "flagged" /\ hpc'[h] = "idle"
          /\ clipboard' \in {"", " ", "raises"})
         => /\ wpc' = wpc
            /\ nreq' = nreq
            /\ last_text' = last_text
            /\ client' = client
            /\ is_processing' = FALSE]_vars

\* a blank clipboard was found by a trigger after an earlier one had been
\* spoken: last_text is still that of the earlier one, the handler has returned
C34_Witness ==
    /\ clipboard = " "
    /\ last_text = "ascii"
    /\ hpc[1] = "idle"
    /\ ~is_processing
    /\ \A w \in Workers : wpc[w] = "free"

\* C38: in the standalone listener every worker ends with one speech path.
\* When the engine of the chosen model is uninitialised the system TTS speaks
\* and no engine call is made; when the engine call or the playback raised, the
\* system TTS speaks once; otherwise it does not speak; and a failed engine
\* initialisation has left both engines None.
C38_OneSpeechPath ==
    /\ (en_tts = None) = (ml_tts = None)
    /\ \A w \in Workers :
         wpc[w] = "finally" =>
            /\ Uninitialised(wmodel[w]) => fallbacks[w] = 1 /\ engine_calls[w] = 0
            /\ (err[w] # None \/ outcome[w] = "PlaybackFailed") => fallbacks[w] = 1
            /\ (~Uninitialised(wmodel[w]) /\ err[w] = None /\ outcome[w] = "Played")
                  => fallbacks[w] = 0

\* C38 without the playback: uninitialised engine, raised engine call or
\* temporary file, and the run that reached the player
OneSpeechPathEngine ==
    /\ (en_tts = None) = (ml_tts = None)
    /\ \A w \in Workers :
         wpc[w] = "finally" =>
            /\ Uninitialised(wmodel[w]) => fallbacks[w] = 1 /\ engine_calls[w] = 0
            /\ err[w] # None => fallbacks[w] = 1
            /\ (~Uninitialised(wmodel[w]) /\ err[w] = None) =>
                  fallbacks[w] = 0 /\ engine_calls[w] = 1

\* C33: in each of the three listeners the in-flight flag is always
\* eventually released: whenever is_processing is True it becomes False again,
\* on every path of the handler and of the worker, and then the handler is
\* idle or has accepted a later trigger.
C33_FlagReleased == is_processing ~> ~is_processing

\* a worker of the VPN-compatible listener whose reconnect found no server is
\* in its finally block with the flag still set
C33_Witness ==
    /\ kind = "vpn_compatible_tts"
    /\ is_processing
    /\ \E w \in Workers : wpc[w] = "finally" /\ outcome[w] = "SystemExit"

\* C35: connection selection changes the selected endpoint only on success.
\* After a call of _connect_to_server self.client is either what it was, or
\* the candidate probed last, whose probe passed; it is that candidate
\* whenever the call returned; and when every candidate's probe failed
\* self.client is what it was before the call.
C35_ClientOnlyOnSuccess ==
    [][(cpc = "start" /\ cpc' = "_connect_to_server") =>
         LET probes == result'.probes
             last == probes[Len(probes)]
         IN /\ (client' # client \/ result'.ended = "return") =>
                  /\ probes # <<>>
                  /\ last[1] = client'
                  /\ last[2].passed
                  /\ env'.answers[client'] \in {"running", "not_running"}
            /\ (\A i \in 1..Len(probes) : ~probes[i][2].passed) =>
                  /\ client' = client
                  /\ result'.ended = "SystemExit"]_vars

\* the call moved self.client to the second candidate after the first failed
C35_Witness ==
    /\ cpc = "_connect_to_server"
    /\ client = Url("127.0.0.1")
    /\ Len(result.probes) = 2
    /\ ~result.probes[1][2].passed

\* every candidate failed, the call ended in sys.exit(1), and self.client is
\* the one it was before
ClientKeptOnFailure ==
    /\ cpc = "_connect_to_server"
    /\ result.ended = "SystemExit"
    /\ Len(result.probes) >= 4
    /\ client = Url("localhost")

\* C36: TTSModelManager is a singleton of the process.  Every construction,
\* whether one after the other or several at the same time, returns the same
\* object; only one object is ever made; the body of __init__ runs at most
\* once; and a construction after the first changes neither the models
\* dictionary nor the reference audio.
C36_Singleton ==
    [][/\ objects' <= 1
       /\ bodies' <= 1
       /\ \A t \in AllThreads : got'[t] \in {0, _instance'}
       /\ \A t \in Threads :
            kpc'[t] # kpc[t] =>
               models' = models /\ reference_audio' = reference_audio]_vars

\* two threads are inside TTSModelManager() at the same time, after the import
\* and a model load; each got the object of the import
C36_Witness ==
    /\ kpc[1] = "__init__" /\ kpc[2] = "__init__"
    /\ got[1] = got[MainThread] /\ got[2] = got[MainThread] /\ got[1] # 0
    /\ DOMAIN models # {}
    /\ bodies = 1

\* C37: the lifecycle of the listener.  start() while running changes
\* nothing; stop() while not running changes nothing; when start() returns,
\* stop() has been run and running is False; _handle_hotkey is called only by a
\* key press after which ctrl, alt, cmd and p are all in current_keys; and a
\* release leaves the released key out of current_keys.
C37_Lifecycle ==
    [][/\ (event' # event /\ event'.op = "start while running") =>
             UNCHANGED <<running, current_keys, pynput_listener, spc, clientVars>>
       /\ (event' # event /\ event'.op = "stop while not running") =>
             UNCHANGED <<running, current_keys, pynput_listener, spc, clientVars>>
       /\ (spc # "out" /\ spc' = "out") =>
             /\ ~running'
             /\ pynput_listener' # "alive"
       /\ (hpc[1] = "idle" /\ hpc'[1] # "idle") =>
             /\ event' # event
             /\ event'.handler
       /\ (event' # event /\ event'.handler) =>
             /\ event'.op = "press"
             /\ current_keys' = current_keys \cup {event'.key}
             /\ {"ctrl", "alt", "cmd", "p"} \subseteq current_keys'
       /\ (event' # event /\ event'.op = "release") =>
             /\ event'.key \notin current_keys'
             /\ current_keys' = current_keys \ {event'.key}]_vars

\* start() has returned after Esc was released while the hotkey's worker was
\* in flight: not running, the listener stopped
C37_Witness ==
    /\ spc = "out"
    /\ event.op = "return"
    /\ ~running
    /\ pynput_listener = "stopped"
    /\ "esc" \notin current_keys
    /\ is_processing
    /\ \E w \in Workers : wpc[w] = "request"

\* the URLs of the probes, in their order, whose result has health_ok
RECURSIVE HealthOkUrls(_)
HealthOkUrls(probes) ==
    IF probes = <<>> THEN <<>>
    ELSE (IF Head(probes)[2].health_ok THEN <<Head(probes)[1]>> ELSE <<>>)
         \o HealthOkUrls(Tail(probes))

\* C39: in every result of test_http_connection health_ok implies http_ok and
\* http_ok implies socket_ok; a result with socket_ok False carries an error
\* and no status code; and the usable endpoints the diagnostic main reports
\* are the candidates whose result has health_ok, in the order of the
\* candidate list, every candidate having been tested.
C39_ProbeResults ==
    cpc = "main" =>
        /\ \A i \in 1..Len(result.probes) :
             LET r == result.probes[i][2] IN
             /\ r.health_ok => r.http_ok
             /\ r.http_ok => r.socket_ok
             /\ ~r.socket_ok => r.error # None /\ r.status_code = NoStatus
        /\ result.ended = "return" =>
             /\ Len(result.probes) = Len(candidates)
             /\ \A i \in 1..Len(candidates) : result.probes[i][1] = candidates[i]
             /\ result.successful_urls = HealthOkUrls(result.probes)

\* a diagnosis in which one candidate failed the socket test, one answered
\* /health with another body, and one passed and is the only one reported
C39_Witness ==
    /\ cpc = "main"
    /\ result.ended = "return"
    /\ Len(result.successful_urls) = 1
    /\ \E i \in 1..Len(result.probes) : ~result.probes[i][2].socket_ok
    /\ \E i \in 1..Len(result.probes) :
         result.probes[i][2].http_ok /\ ~result.probes[i][2].health_ok

====
